---- MODULE Spec2Model ----
(***************************************************************************)
(* Process supervisor of fm-skin-builder's Tauri frontend                  *)
(* (src/frontend/src-tauri/src/process.rs, with the older copy of the same *)
(* commands in src/frontend/src-tauri/src/main.rs).                        *)
(*                                                                         *)
(* Text is modelled as a sequence of one-character strings, so that        *)
(* contains / split_whitespace / trim / parse / join are computed and not  *)
(* assumed.  Option<T> is a sequence of length at most one: <<>> is None,  *)
(* <<x>> is Some(x).                                                       *)
(***************************************************************************)
EXTENDS Integers, Sequences, FiniteSets, TLC

\* ---------------------------------------------------------------- bounds
\* concurrent invocations of run_python_task
MaxRuns == 2
\* invocations of stop_python_task
MaxCancels == 1
\* lines a worker writes, both streams together
MaxLines == 2
\* lines an OS pipe holds before the writer blocks
PipeCap == 1
\* the most pieces a line given to parse_progress is put together from
MaxPieces == 5
\* the most words a line given to get_log_level is put together from
MaxWords == 3

\* ------------------------------------------------------ program constants
\* u32::MAX, the range of parse::<u32>(), as a digit string
U32Max == <<"4", "2", "9", "4", "9", "6", "7", "2", "9", "5">>
\* exit_status.code().unwrap_or(-1)
NoExitCode == -1

Runs == 1..MaxRuns
Cancels == 1..MaxCancels
Streams == {"stdout", "stderr"}

\* ------------------------------------------------------------ text helpers
WhiteSpace == {" ", "\t"}
Digits == <<"0", "1", "2", "3", "4", "5", "6", "7", "8", "9">>

IsPrefixAt(s, p, i) ==
    /\ i + Len(p) - 1 <= Len(s)
    /\ SubSeq(s, i, i + Len(p) - 1) = p

\* str::contains
Contains(s, p) == \E i \in 1..(Len(s) + 1) : IsPrefixAt(s, p, i)

\* index of the first occurrence of p in s, 0 when there is none
FindFirst(s, p) ==
    IF Contains(s, p)
    THEN CHOOSE i \in 1..(Len(s) + 1) :
            /\ IsPrefixAt(s, p, i)
            /\ \A j \in 1..(i - 1) : ~IsPrefixAt(s, p, j)
    ELSE 0

RECURSIVE SplitWsFrom(_, _, _)
SplitWsFrom(s, i, cur) ==
    IF i > Len(s)
    THEN (IF Len(cur) = 0 THEN <<>> ELSE <<cur>>)
    ELSE IF s[i] \in WhiteSpace
         THEN (IF Len(cur) = 0 THEN <<>> ELSE <<cur>>) \o SplitWsFrom(s, i + 1, <<>>)
         ELSE SplitWsFrom(s, i + 1, Append(cur, s[i]))

\* str::split_whitespace().collect()
split_whitespace(s) == SplitWsFrom(s, 1, <<>>)

RECURSIVE TrimStart(_)
TrimStart(s) ==
    IF Len(s) > 0 /\ s[1] \in WhiteSpace THEN TrimStart(Tail(s)) ELSE s

RECURSIVE TrimEnd(_)
TrimEnd(s) ==
    IF Len(s) > 0 /\ s[Len(s)] \in WhiteSpace
    THEN TrimEnd(SubSeq(s, 1, Len(s) - 1))
    ELSE s

\* str::trim
trim(s) == TrimEnd(TrimStart(s))

RECURSIVE trim_end_matches(_, _)
trim_end_matches(s, c) ==
    IF Len(s) > 0 /\ s[Len(s)] = c
    THEN trim_end_matches(SubSeq(s, 1, Len(s) - 1), c)
    ELSE s

RECURSIVE JoinWith(_, _)
\* [String]::join(sep)
JoinWith(ss, sep) ==
    IF Len(ss) = 0 THEN <<>>
    ELSE IF Len(ss) = 1 THEN ss[1]
    ELSE ss[1] \o sep \o JoinWith(Tail(ss), sep)

DigitValue(c) == (CHOOSE i \in 1..10 : Digits[i] = c) - 1
IsDigit(c) == \E i \in 1..10 : Digits[i] = c

RECURSIVE StripZeros(_)
\* a digit string without its leading zeros ("0" for zero): the u32 it denotes
StripZeros(s) ==
    IF Len(s) > 1 /\ s[1] = "0" THEN StripZeros(Tail(s)) ELSE s

RECURSIVE DigitsLeq(_, _)
\* a <= b for digit strings of the same length
DigitsLeq(a, b) ==
    IF Len(a) = 0 THEN TRUE
    ELSE IF a[1] = b[1] THEN DigitsLeq(Tail(a), Tail(b))
    ELSE DigitValue(a[1]) < DigitValue(b[1])

\* the number fits a u32; numbers are kept as digit strings, u32::MAX being
\* beyond the integers the checker computes with
FitsU32(d) == Len(d) < Len(U32Max) \/ (Len(d) = Len(U32Max) /\ DigitsLeq(d, U32Max))

\* str::parse::<u32>(): an optional '+', then one or more digits, no overflow
parse_u32(tok) ==
    LET body == IF Len(tok) > 0 /\ tok[1] = "+" THEN Tail(tok) ELSE tok
        wellFormed == Len(body) > 0 /\ \A i \in 1..Len(body) : IsDigit(body[i])
        val == IF wellFormed THEN StripZeros(body) ELSE <<"0">>
    IN  IF wellFormed /\ FitsU32(val)
        THEN [ok |-> TRUE, val |-> val]
        ELSE [ok |-> FALSE, val |-> <<"0">>]

\* variant: the total is not looked at
PositiveOrZero(val) == TRUE

\* total > 0
Positive(val) == val # <<"0">>

\* ------------------------------------------------------------ literals
Lower == <<"a", "b", "c", "d", "e", "f", "g", "h", "i", "j", "k", "l", "m",
           "n", "o", "p", "q", "r", "s", "t", "u", "v", "w", "x", "y", "z">>
Upper == <<"A", "B", "C", "D", "E", "F", "G", "H", "I", "J", "K", "L", "M",
           "N", "O", "P", "Q", "R", "S", "T", "U", "V", "W", "X", "Y", "Z">>
\* the one character U+2717 (BALLOT X), and U+2713 (CHECK MARK)
Glyph == "U+2717"
CheckMark == "U+2713"

S_patch == <<"p", "a", "t", "c", "h">>
S_bundle_flag == <<"-", "-", "b", "u", "n", "d", "l", "e">>
S_debug_export == <<"-", "-", "d", "e", "b", "u", "g", "-", "e", "x", "p", "o", "r", "t">>
S_dry_run == <<"-", "-", "d", "r", "y", "-", "r", "u", "n">>
S_marker == <<"=", "=", "=", " ", "P", "r", "o", "c", "e", "s", "s", "i", "n", "g", " ", "b", "u", "n", "d", "l", "e">>
S_processing_bundle == <<"P", "r", "o", "c", "e", "s", "s", "i", "n", "g", " ", "b", "u", "n", "d", "l", "e">>
S_bundle == <<"b", "u", "n", "d", "l", "e">>
S_of == <<"o", "f">>
S_sp_of_sp == <<" ", "o", "f", " ">>
S_eqeqeq == <<"=", "=", "=">>
S_ERROR == <<"E", "R", "R", "O", "R">>
S_CRITICAL == <<"C", "R", "I", "T", "I", "C", "A", "L">>
S_WARN == <<"W", "A", "R", "N">>
S_WARNING == <<"W", "A", "R", "N", "I", "N", "G">>
S_DEBUG == <<"D", "E", "B", "U", "G">>

\* ------------------------------------------------------- pure functions
UpperChar(c) ==
    IF \E i \in 1..26 : Lower[i] = c
    THEN Upper[CHOOSE i \in 1..26 : Lower[i] = c]
    ELSE c

\* str::to_uppercase
to_uppercase(s) == [i \in 1..Len(s) |-> UpperChar(s[i])]

\* variant: the paths are passed on as they were typed
build_cli_args_untrimmed(config) ==
    LET skin == config.skin_path
        bundles == config.bundles_path
    IN  IF Len(trim(skin)) = 0
        THEN [ok |-> FALSE, args |-> <<>>, err |-> "Skin folder is required."]
        ELSE [ok |-> TRUE,
              args |-> <<S_patch, skin>>
                       \o (IF Len(trim(bundles)) # 0 THEN <<S_bundle_flag, bundles>> ELSE <<>>)
                       \o (IF config.debug_export THEN <<S_debug_export>> ELSE <<>>)
                       \o (IF config.dry_run THEN <<S_dry_run>> ELSE <<>>),
              err |-> ""]

\* variant: the two flags are pushed in the other order
build_cli_args_dry_first(config) ==
    LET skin == trim(config.skin_path)
        bundles == trim(config.bundles_path)
    IN  IF Len(skin) = 0
        THEN [ok |-> FALSE, args |-> <<>>, err |-> "Skin folder is required."]
        ELSE [ok |-> TRUE,
              args |-> <<S_patch, skin>>
                       \o (IF Len(bundles) # 0 THEN <<S_bundle_flag, bundles>> ELSE <<>>)
                       \o (IF config.dry_run THEN <<S_dry_run>> ELSE <<>>)
                       \o (IF config.debug_export THEN <<S_debug_export>> ELSE <<>>),
              err |-> ""]

\* fn build_cli_args(config: &TaskConfig) -> Result<Vec<String>, String>
build_cli_args(config) ==
    LET skin == trim(config.skin_path)
        bundles == trim(config.bundles_path)
    IN  IF Len(skin) = 0
        THEN [ok |-> FALSE, args |-> <<>>, err |-> "Skin folder is required."]
        ELSE [ok |-> TRUE,
              args |-> <<S_patch, skin>>
                       \o (IF Len(bundles) # 0 THEN <<S_bundle_flag, bundles>> ELSE <<>>)
                       \o (IF config.debug_export THEN <<S_debug_export>> ELSE <<>>)
                       \o (IF config.dry_run THEN <<S_dry_run>> ELSE <<>>),
              err |-> ""]

\* Pattern 1: "=== Processing bundle X of Y: ..."
MarkerHits(parts) ==
    {j \in 1..(Len(parts) - 3) :
        /\ parts[j] = S_bundle
        /\ parts[j + 2] = S_of
        /\ parse_u32(parts[j + 1]).ok
        /\ parse_u32(trim_end_matches(parts[j + 3], ":")).ok}

\* variant: the tokens behind the total are dropped
MarkerStatusBare(parts, j) == S_processing_bundle

MarkerStatus(parts, j) ==
    IF j + 4 <= Len(parts)
    THEN S_processing_bundle \o <<" ">> \o JoinWith(SubSeq(parts, j + 4, Len(parts)), <<" ">>)
    ELSE S_processing_bundle

\* variant: the scan stops one triple short of the end
GenericHitsShort(words) ==
    {j \in 1..(Len(words) - 3) :
        /\ words[j + 1] = S_of
        /\ parse_u32(words[j]).ok
        /\ parse_u32(words[j + 2]).ok}

\* Pattern 2: a general "X of Y"
GenericHits(words) ==
    {j \in 1..(Len(words) - 2) :
        /\ words[j + 1] = S_of
        /\ parse_u32(words[j]).ok
        /\ parse_u32(words[j + 2]).ok}

\* line.split("===").next().unwrap_or(line).trim()
GenericStatus(line) ==
    LET at == FindFirst(line, S_eqeqeq)
    IN  trim(IF at = 0 THEN line ELSE SubSeq(line, 1, at - 1))

MinOf(S) == CHOOSE x \in S : \A y \in S : x <= y

\* variant: the general pattern is tried before the marker pattern
parse_progress_generic_first(line) ==
    LET parts == split_whitespace(line)
        hits1 == IF Contains(line, S_marker) THEN MarkerHits(parts) ELSE {}
        hits2 == IF Contains(line, S_sp_of_sp) THEN GenericHits(parts) ELSE {}
    IN  IF hits2 # {}
        THEN LET j == MinOf(hits2)
             IN  <<[current |-> parse_u32(parts[j]).val,
                    total |-> parse_u32(parts[j + 2]).val,
                    status |-> GenericStatus(line)]>>
        ELSE IF hits1 # {}
        THEN LET j == MinOf(hits1)
             IN  <<[current |-> parse_u32(parts[j + 1]).val,
                    total |-> parse_u32(trim_end_matches(parts[j + 3], ":")).val,
                    status |-> MarkerStatus(parts, j)]>>
        ELSE <<>>

\* fn parse_progress(line: &str) -> Option<(u32, u32, String)>
parse_progress(line) ==
    LET parts == split_whitespace(line)
        hits1 == IF Contains(line, S_marker) THEN MarkerHits(parts) ELSE {}
        hits2 == IF Contains(line, S_sp_of_sp) THEN GenericHits(parts) ELSE {}
    IN  IF hits1 # {}
        THEN LET j == MinOf(hits1)
             IN  <<[current |-> parse_u32(parts[j + 1]).val,
                    total |-> parse_u32(trim_end_matches(parts[j + 3], ":")).val,
                    status |-> MarkerStatus(parts, j)]>>
        ELSE IF hits2 # {}
        THEN LET j == MinOf(hits2)
             IN  <<[current |-> parse_u32(parts[j]).val,
                    total |-> parse_u32(parts[j + 2]).val,
                    status |-> GenericStatus(line)]>>
        ELSE <<>>

\* variant: the warning markers are looked for first
get_log_level_warn_first(line) ==
    LET line_upper == to_uppercase(line)
    IN  IF Contains(line_upper, S_WARN) \/ Contains(line_upper, S_WARNING)
        THEN "warning"
        ELSE IF \/ Contains(line_upper, S_ERROR)
                \/ Contains(line_upper, <<Glyph>>)
                \/ Contains(line_upper, S_CRITICAL)
        THEN "error"
        ELSE "info"

\* fn get_log_level(line: &str) -> String
get_log_level(line) ==
    LET line_upper == to_uppercase(line)
    IN  IF \/ Contains(line_upper, S_ERROR)
           \/ Contains(line_upper, <<Glyph>>)
           \/ Contains(line_upper, S_CRITICAL)
        THEN "error"
        ELSE IF Contains(line_upper, S_WARN) \/ Contains(line_upper, S_WARNING)
        THEN "warning"
        ELSE IF Contains(line_upper, S_DEBUG)
        THEN "info"
        ELSE "info"

\* ---------------------------------------------------------------- state
VARIABLES
    pc,           \* pc[r]: where invocation r of run_python_task stands
    config,       \* config[r]: the TaskConfig it was called with
    child,        \* child[r]: the local `child` between spawn and publish (Option)
    slot,         \* ProcessState.child: Option<Child> behind the mutex
    lock,         \* holder of the mutex: <<>> free, <<"run", r>>, <<"cancel", c>>
    worker,       \* worker[r]: the OS process spawned by invocation r
    wrote,        \* wrote[r][s]: the lines worker r has written to stream s
    rdpos,        \* rdpos[r][s]: how many of them have left the pipe
    reader,       \* reader[r][s]: the reader task of stream s
    lines,        \* lines[r][s]: the Vec<String> that task collects
    exit_status,  \* exit_status[r]: what the wait recorded (Option)
    sink,         \* sink[r]: events delivered to the window by invocation r
    result,       \* result[r]: what run_python_task returned (Option)
    cpc,          \* cpc[c]: where invocation c of stop_python_task stands
    cresult,      \* cresult[c]: what stop_python_task returned (Option)
    rejected,     \* rejected[r]: the window has refused an event of invocation r
    call          \* a call of one of the pure functions: its argument and value

vars == <<pc, config, child, slot, lock, worker, wrote, rdpos, reader, lines,
          exit_status, sink, result, cpc, cresult, rejected, call>>

\* ------------------------------------------------------------- inputs
L_progress == <<"1", " ", "o", "f", " ", "2">>
L_zero == <<"1", " ", "o", "f", " ", "0">>
\* what a worker may print
WorkerLines == {L_progress, L_zero}

CfgBlank == [skin_path |-> <<" ">>, bundles_path |-> <<>>,
             debug_export |-> FALSE, dry_run |-> FALSE]
CfgBuild == [skin_path |-> <<"s">>, bundles_path |-> <<>>,
             debug_export |-> FALSE, dry_run |-> FALSE]
CfgPreview == [skin_path |-> <<"s">>, bundles_path |-> <<"b">>,
               debug_export |-> TRUE, dry_run |-> TRUE]
Configs == {CfgBlank, CfgBuild, CfgPreview}

\* std::process::ExitStatus: code() is None when a signal ended the process
StatusCode(n) == [code |-> <<n>>]
StatusSignal == [code |-> <<>>]
ExitStatuses == {StatusCode(0), StatusCode(2), StatusSignal}
\* variant: a missing exit code is reported as 0
ExitCodeOrZero(st) == IF Len(st.code) = 0 THEN 0 ELSE st.code[1]
ExitCode(st) == IF Len(st.code) = 0 THEN NoExitCode ELSE st.code[1]
Success(st) == st.code = <<0>>

NoWorker == [state |-> "none", status |-> StatusSignal]
Running == [state |-> "running", status |-> StatusSignal]
Exited(st) == [state |-> "exited", status |-> st]
\* ended by the SIGKILL of stop_python_task
KilledWorker == [state |-> "killed", status |-> StatusSignal]
\* the process has ended (of its own accord or killed); its pipes are closed
Dead(w) == worker[w].state \in {"exited", "killed"}

\* ------------------------------------------------------------- events
TaskStartedEvent(msg) ==
    [kind |-> "task_started", message |-> <<msg>>, by |-> "main", n |-> 0]
LogEvent(msg, level, by, n) ==
    [kind |-> "build_log", message |-> msg, level |-> level, by |-> by, n |-> n]
ProgressEvent(p, by, n) ==
    [kind |-> "build_progress", current |-> p.current, total |-> p.total,
     status |-> p.status, by |-> by, n |-> n]
CompletionEvent(success, exit_code, message) ==
    [kind |-> "build_complete", success |-> success, exit_code |-> exit_code,
     message |-> message, by |-> "main", n |-> 0]

RECURSIVE FormatNat(_)
FormatNat(n) ==
    IF n < 10 THEN <<Digits[n + 1]>> ELSE FormatNat(n \div 10) \o <<Digits[(n % 10) + 1]>>
\* format!("{}", exit_code)
FormatInt(n) == IF n < 0 THEN <<"-">> \o FormatNat(0 - n) ELSE FormatNat(n)

\* variant: the message does not look at dry_run
CompletionMessageOfBuild(success, dry_run, exit_code) ==
    IF success
    THEN <<CheckMark, " Build completed successfully. All bundles have been created.">>
    ELSE <<Glyph, " Build failed with exit code ">> \o FormatInt(exit_code)
         \o <<". Check the logs for details.">>

CompletionMessage(success, dry_run, exit_code) ==
    IF success
    THEN IF dry_run
         THEN <<CheckMark, " Preview completed successfully. No bundles were modified during this dry run.">>
         ELSE <<CheckMark, " Build completed successfully. All bundles have been created.">>
    ELSE IF dry_run
         THEN <<Glyph, " Preview failed with exit code ">> \o FormatInt(exit_code)
              \o <<". Check the logs for details.">>
         ELSE <<Glyph, " Build failed with exit code ">> \o FormatInt(exit_code)
              \o <<". Check the logs for details.">>

\* Result<CommandResult, String>
OkResult(out, err, status) ==
    [ok |-> TRUE, err |-> "", stdout |-> out, stderr |-> err, status |-> status]
ErrResult(msg) ==
    [ok |-> FALSE, err |-> msg, stdout |-> <<>>, stderr |-> <<>>, status |-> 0]

\* ------------------------------------------- run_python_task, up to publish
\* The steps of run_python_task before the child is stored, in program order.
\* Steps 6 and 7 exist in release builds only; steps 8 to 10 in process.rs only.
StepTaskStarted == 1
StepLogValidating == 2
StepBuildArgs == 3
StepLogStarting == 4
StepLogPython == 5
StepResolveBinary == 6
StepBinaryExists == 7
StepCacheDir == 8
StepCreateCacheDir == 9
StepLogCacheDir == 10
StepLogSpawning == 11
StepSpawn == 12
StepLogSpawned == 13
StepTakeStdout == 14
StepTakeStderr == 15
LastStep == 15

\* variant: the run does not announce its start
EmitStepsUnannounced ==
    {StepLogValidating, StepLogStarting, StepLogPython, StepLogCacheDir,
     StepLogSpawning, StepLogSpawned}

EmitSteps == {StepTaskStarted, StepLogValidating, StepLogStarting, StepLogPython,
              StepLogCacheDir, StepLogSpawning, StepLogSpawned}

\* what each emitting step sends
StepEvent(i) ==
    CASE i = StepTaskStarted -> TaskStartedEvent("Initializing backend...")
      [] i = StepLogValidating ->
            LogEvent(<<"Validating configuration...">>, "info", "main", 0)
      [] i = StepLogStarting ->
            LogEvent(<<"Starting Python backend (cold start may take a moment)...">>,
                     "info", "main", 0)
      [] i = StepLogPython -> LogEvent(<<"Using Python: ">>, "info", "main", 0)
      [] i = StepLogCacheDir -> LogEvent(<<"Using cache directory: ">>, "info", "main", 0)
      [] i = StepLogSpawning ->
            LogEvent(<<"Spawning process with args: ">>, "info", "main", 0)
      [] i = StepLogSpawned ->
            LogEvent(<<"Backend process spawned successfully, processing...">>,
                     "info", "main", 0)

\* the Err(String) each step returns with when it fails
StepError(i) ==
    CASE i = StepTaskStarted -> "Failed to emit task_started"
      [] i = StepLogValidating -> "Failed to emit build_log"
      [] i = StepBuildArgs -> "Configuration error: Skin folder is required."
      [] i = StepResolveBinary -> "Failed to resolve backend binary path"
      [] i = StepBinaryExists -> "Backend binary not found"
      [] i = StepCacheDir -> "Failed to get cache dir"
      [] i = StepCreateCacheDir -> "Failed to create cache dir"
      [] i = StepSpawn -> "Failed to spawn Python process"
      [] i = StepTakeStdout -> "Failed to capture stdout"
      [] i = StepTakeStderr -> "Failed to capture stderr"
      [] OTHER -> "Failed to emit"

\* the steps a copy of the command does not have
SkippedSteps(v) ==
    IF v = "main" THEN {StepCacheDir, StepCreateCacheDir, StepLogCacheDir} ELSE {}

\* the failing steps that also send an error-level build_log (let _ = window.emit)
ErrorLoggedSteps(v) ==
    IF v = "main"
    THEN {StepBuildArgs, StepResolveBinary, StepBinaryExists, StepSpawn,
          StepTakeStdout, StepTakeStderr}
    ELSE {StepBuildArgs}

\* variant: the arguments are not validated
FailingStepUnvalidated(cfg, failAt) == failAt

\* the step the prefix stops at (0: none), given the step the environment fails
FailingStep(cfg, failAt) ==
    IF ~build_cli_args(cfg).ok /\ (failAt = 0 \/ failAt > StepBuildArgs)
    THEN StepBuildArgs
    ELSE failAt

\* variant: the error of command.spawn() is not propagated
ProceedsDespiteSpawnError(k) == k \in {0, StepSpawn}

\* variant: the error of the task_started emit is not propagated
ProceedsDespiteStartedError(k) == k \in {0, StepTaskStarted}

\* every `?` of the prefix passed: the run goes on to store the child
Proceeds(k) == k = 0

RECURSIVE EventsBefore(_, _, _)
\* the events of the emitting steps from i up to, not including, step k
EventsBefore(v, i, k) ==
    IF i >= k THEN <<>>
    ELSE (IF i \in EmitSteps \ SkippedSteps(v) THEN <<StepEvent(i)>> ELSE <<>>)
         \o EventsBefore(v, i + 1, k)

\* the events run_python_task has delivered when its prefix ends at step k
PrefixEvents(v, k, errLogOk) ==
    IF k = 0 THEN EventsBefore(v, 1, LastStep + 1)
    ELSE EventsBefore(v, 1, k)
         \o (IF k \in ErrorLoggedSteps(v) /\ errLogOk
             THEN <<LogEvent(<<StepError(k)>>, "error", "main", 0)>>
             ELSE <<>>)

\* an emit of the prefix ending at step k returned Err: the emit of step k
\* itself (`?`), or the error-level log of a failing step (`let _ =`)
PrefixRejected(v, k, errLogOk) ==
    \/ k \in EmitSteps \ SkippedSteps(v)
    \/ k \in ErrorLoggedSteps(v) /\ ~errLogOk

\* command.spawn(): the Child with both pipes attached
SpawnedChild(r) == [w |-> r, stdout |-> TRUE, stderr |-> TRUE]

\* variant: the pipes are left on the child that gets stored
TakePipesForgotten(h) == h

\* child.stdout.take() and child.stderr.take()
TakePipes(h) == [h EXCEPT !.stdout = FALSE, !.stderr = FALSE]

\* no pure function is being looked at
NoCall == [fn |-> "none", src |-> <<>>, arg |-> <<>>, ret |-> <<>>]

\* nothing has been invoked
Quiet ==
    /\ pc = [r \in Runs |-> "idle"]
    /\ config = [r \in Runs |-> CfgBuild]
    /\ child = [r \in Runs |-> <<>>]
    /\ slot = <<>>
    /\ lock = <<>>
    /\ worker = [r \in Runs |-> NoWorker]
    /\ wrote = [r \in Runs |-> [s \in Streams |-> <<>>]]
    /\ rdpos = [r \in Runs |-> [s \in Streams |-> 0]]
    /\ reader = [r \in Runs |-> [s \in Streams |-> "none"]]
    /\ lines = [r \in Runs |-> [s \in Streams |-> <<>>]]
    /\ exit_status = [r \in Runs |-> <<>>]
    /\ sink = [r \in Runs |-> <<>>]
    /\ result = [r \in Runs |-> <<>>]
    /\ cpc = [c \in Cancels |-> "idle"]
    /\ cresult = [c \in Cancels |-> <<>>]
    /\ rejected = [r \in Runs |-> FALSE]

Init == Quiet /\ call = NoCall

\* run_python_task from its call to `state.child.lock().await` of the publish:
\* emits, argument validation, spawn and the capture of both pipes touch nothing
\* another task reads, so they are one step.  failAt is the step the environment
\* makes fail (0: none); nothing stops a call while another run is in flight.
StartRun(v, r, cfg, failAt, errLogOk) ==
    LET k == FailingStep(cfg, failAt)
    IN  /\ pc[r] = "idle"
        /\ config' = [config EXCEPT ![r] = cfg]
        /\ sink' = [sink EXCEPT ![r] = PrefixEvents(v, k, errLogOk)]
        /\ worker' = [worker EXCEPT ![r] =
                         IF k = 0 \/ k > StepSpawn THEN Running ELSE NoWorker]
        /\ IF Proceeds(k)
           THEN /\ child' = [child EXCEPT ![r] = <<TakePipes(SpawnedChild(r))>>]
                /\ pc' = [pc EXCEPT ![r] = "publish"]
                /\ UNCHANGED result
           ELSE \* the `?` returns; a spawned child is dropped, not killed
                /\ pc' = [pc EXCEPT ![r] = "done"]
                /\ result' = [result EXCEPT ![r] = <<ErrResult(StepError(k))>>]
                /\ UNCHANGED child
        /\ rejected' = [rejected EXCEPT ![r] = PrefixRejected(v, k, errLogOk)]
        /\ UNCHANGED <<slot, lock, wrote, rdpos, reader, lines, exit_status,
                       cpc, cresult>>
        /\ UNCHANGED call

\* { let mut child_guard = state.child.lock().await; *child_guard = Some(child); }
\* and the two tokio::spawn of the reader tasks that follow it
StoreChild(r) ==
    /\ pc[r] = "publish"
    /\ lock = <<>>
    /\ slot' = child[r]
    /\ child' = [child EXCEPT ![r] = <<>>]
    /\ reader' = [reader EXCEPT ![r] = [s \in Streams |-> "reading"]]
    /\ pc' = [pc EXCEPT ![r] = "wait"]
    /\ UNCHANGED <<config, lock, worker, wrote, rdpos, lines, exit_status, sink,
                   result, cpc, cresult>>
    /\ UNCHANGED rejected
    /\ UNCHANGED call

\* ------------------------------------------------------- the wait loop
\* drop(child_guard) before tokio::time::sleep: the mutex is free while asleep
GuardWhileAsleep(r) == <<>>

\* variant: an empty slot is polled again
ObserveEmptyRetry(r) ==
    /\ pc' = [pc EXCEPT ![r] = "sleep"]
    /\ UNCHANGED <<slot, lock, exit_status, sink, result>>

\* the else branch of the loop: the slot holds no child
ObserveEmpty(r) ==
    /\ pc' = [pc EXCEPT ![r] = "done"]
    /\ result' = [result EXCEPT ![r] = <<ErrResult("Task was cancelled")>>]
    /\ UNCHANGED <<slot, lock, exit_status, sink>>

\* variant: a failed try_wait leaves the child in the slot
WaitFailedKeepsChild(r, errLogOk) ==
    /\ sink' = [sink EXCEPT ![r] =
           IF errLogOk
           THEN Append(@, LogEvent(<<"Failed to check process status">>,
                                   "error", "main", 0))
           ELSE @]
    /\ pc' = [pc EXCEPT ![r] = "done"]
    /\ result' = [result EXCEPT ![r] =
           <<ErrResult("Failed to check process status")>>]
    /\ UNCHANGED <<slot, lock, exit_status>>

\* the Err(error) arm of child.try_wait(): log, clear the slot, return Err
WaitFailed(r, errLogOk) ==
    /\ sink' = [sink EXCEPT ![r] =
           IF errLogOk
           THEN Append(@, LogEvent(<<"Failed to check process status">>,
                                   "error", "main", 0))
           ELSE @]
    /\ slot' = <<>>
    /\ pc' = [pc EXCEPT ![r] = "done"]
    /\ result' = [result EXCEPT ![r] =
           <<ErrResult("Failed to check process status")>>]
    /\ UNCHANGED <<lock, exit_status>>

\* One pass of `loop { ... }`: lock, look at the slot, try_wait, unlock.
\* waitFails: child.try_wait() returns Err; errLogOk: the error log is delivered.
PollChild(r, waitFails, errLogOk) ==
    /\ pc[r] = "wait"
    /\ lock = <<>>
    /\ IF Len(slot) = 0
       THEN ObserveEmpty(r)
       ELSE LET w == slot[1].w
            IN  IF waitFails
                THEN WaitFailed(r, errLogOk)
                ELSE IF Dead(w)
                THEN \* Ok(Some(status))
                     /\ slot' = <<>>
                     /\ exit_status' = [exit_status EXCEPT ![r] = <<worker[w].status>>]
                     /\ pc' = [pc EXCEPT ![r] = "join_stdout"]
                     /\ UNCHANGED <<lock, sink, result>>
                ELSE \* Ok(None)
                     /\ lock' = GuardWhileAsleep(r)
                     /\ pc' = [pc EXCEPT ![r] = "sleep"]
                     /\ UNCHANGED <<slot, exit_status, sink, result>>
    /\ rejected' = [rejected EXCEPT ![r] =
                        @ \/ (Len(slot) = 1 /\ waitFails /\ ~errLogOk)]
    /\ UNCHANGED <<config, child, worker, wrote, rdpos, reader, lines, cpc, cresult>>
    /\ UNCHANGED call

\* tokio::time::sleep(Duration::from_millis(100)).await returns
WakeUp(r) ==
    /\ pc[r] = "sleep"
    /\ pc' = [pc EXCEPT ![r] = "wait"]
    /\ lock' = IF lock = <<"run", r>> THEN <<>> ELSE lock
    /\ UNCHANGED <<config, child, slot, worker, wrote, rdpos, reader, lines,
                   exit_status, sink, result, cpc, cresult>>
    /\ UNCHANGED rejected
    /\ UNCHANGED call

\* ------------------------------------------------------ completion
\* variant: the report does not wait for the reader tasks
FinishedOrNot(r, s) == TRUE

\* a reader task has returned its Vec<String>
Finished(r, s) == reader[r][s] \in {"eof", "failed"}

\* stdout_task.await: returns once the stdout reader task has finished
JoinStdout(r) ==
    /\ pc[r] = "join_stdout"
    /\ Finished(r, "stdout")
    /\ pc' = [pc EXCEPT ![r] = "join_stderr"]
    /\ UNCHANGED <<config, child, slot, lock, worker, wrote, rdpos, reader, lines,
                   exit_status, sink, result, cpc, cresult>>
    /\ UNCHANGED rejected
    /\ UNCHANGED call

\* variant: the two fields of the result are exchanged
ReportSwapped(r) ==
    OkResult(JoinWith(lines[r]["stderr"], <<"\n">>),
             JoinWith(lines[r]["stdout"], <<"\n">>),
             ExitCode(exit_status[r][1]))

\* variant: a failed read fails the run
ReportUnlessFailed(r) ==
    IF \E s \in Streams : reader[r][s] = "failed"
    THEN ErrResult("Failed to read output")
    ELSE OkResult(JoinWith(lines[r]["stdout"], <<"\n">>),
                  JoinWith(lines[r]["stderr"], <<"\n">>),
                  ExitCode(exit_status[r][1]))

\* the CommandResult of a run
Report(r) ==
    OkResult(JoinWith(lines[r]["stdout"], <<"\n">>),
             JoinWith(lines[r]["stderr"], <<"\n">>),
             ExitCode(exit_status[r][1]))

\* stderr_task.await, then the completion event and the CommandResult
JoinStderrAndReport(r, emitOk) ==
    /\ pc[r] = "join_stderr"
    /\ Finished(r, "stderr")
    /\ LET st == exit_status[r][1]
           exit_code == ExitCode(st)
           success == Success(st)
       IN  IF emitOk
           THEN /\ sink' = [sink EXCEPT ![r] =
                      Append(@, CompletionEvent(success, exit_code,
                                 CompletionMessage(success, config[r].dry_run, exit_code)))]
                /\ result' = [result EXCEPT ![r] = <<Report(r)>>]
           ELSE /\ result' = [result EXCEPT ![r] =
                      <<ErrResult("Failed to emit completion")>>]
                /\ UNCHANGED sink
    /\ pc' = [pc EXCEPT ![r] = "done"]
    /\ rejected' = [rejected EXCEPT ![r] = @ \/ ~emitOk]
    /\ UNCHANGED <<config, child, slot, lock, worker, wrote, rdpos, reader, lines,
                   exit_status, cpc, cresult>>
    /\ UNCHANGED call

\* ------------------------------------------------------ reader tasks
\* the events one line produces: progress (when total > 0) before log
\* (the stderr task of main.rs does not parse for progress)
LineEvents(v, line, by, n, progressOk, logOk) ==
    LET p == IF v = "main" /\ by = "stderr" THEN <<>> ELSE parse_progress(line)
    IN  (IF Len(p) = 1 /\ Positive(p[1].total) /\ progressOk
         THEN <<ProgressEvent(p[1], by, n)>> ELSE <<>>)
        \o (IF logOk THEN <<LogEvent(line, get_log_level(line), by, n)>> ELSE <<>>)

\* an emit for the line returned Err (`let _ =` drops it)
LineRejected(v, line, by, progressOk, logOk) ==
    LET p == IF v = "main" /\ by = "stderr" THEN <<>> ELSE parse_progress(line)
    IN  (Len(p) = 1 /\ Positive(p[1].total) /\ ~progressOk) \/ ~logOk

\* variant: the pipes are read only once the worker has ended
ReadableAfterExit(r, s) ==
    rdpos[r][s] < Len(wrote[r][s]) /\ worker[r].state # "running"

\* next_line().await has a line to return: the pipe is not empty
Readable(r, s) == rdpos[r][s] < Len(wrote[r][s])

\* one turn of `while let Ok(Some(line)) = reader.next_line().await { ... }`
ReadLine(v, r, s, progressOk, logOk) ==
    /\ reader[r][s] = "reading"
    /\ Readable(r, s)
    /\ LET line == wrote[r][s][rdpos[r][s] + 1]
           n == Len(lines[r][s]) + 1
       IN  /\ lines' = [lines EXCEPT ![r][s] = Append(@, line)]
           /\ sink' = [sink EXCEPT ![r] = @ \o LineEvents(v, line, s, n, progressOk, logOk)]
    /\ rdpos' = [rdpos EXCEPT ![r][s] = @ + 1]
    /\ rejected' = [rejected EXCEPT ![r] =
           @ \/ LineRejected(v, wrote[r][s][rdpos[r][s] + 1], s, progressOk, logOk)]
    /\ UNCHANGED <<pc, config, child, slot, lock, worker, wrote, reader,
                   exit_status, result, cpc, cresult>>
    /\ UNCHANGED call

\* The same turn of the loop in the two steps another task can come between:
\* next_line() returns the line, it is pushed and its progress event emitted ...
ReadProgress(v, r, s, progressOk) ==
    /\ reader[r][s] = "reading"
    /\ Readable(r, s)
    /\ LET line == wrote[r][s][rdpos[r][s] + 1]
           n == Len(lines[r][s]) + 1
       IN  /\ lines' = [lines EXCEPT ![r][s] = Append(@, line)]
           /\ sink' = [sink EXCEPT ![r] = @ \o LineEvents(v, line, s, n, progressOk, FALSE)]
           /\ rejected' = [rejected EXCEPT ![r] =
                  @ \/ LineRejected(v, line, s, progressOk, TRUE)]
    /\ rdpos' = [rdpos EXCEPT ![r][s] = @ + 1]
    /\ reader' = [reader EXCEPT ![r][s] = "logging"]
    /\ UNCHANGED <<pc, config, child, slot, lock, worker, wrote,
                   exit_status, result, cpc, cresult>>
    /\ UNCHANGED call

\* variant: the progress event follows the log event
LogThenProgress(line, by, n, logOk) ==
    (IF logOk THEN <<LogEvent(line, get_log_level(line), by, n)>> ELSE <<>>)
    \o (IF Len(parse_progress(line)) = 1
        THEN <<ProgressEvent(parse_progress(line)[1], by, n)>> ELSE <<>>)

\* what the second step sends: the log event of the line
LogOnly(line, by, n, logOk) ==
    IF logOk THEN <<LogEvent(line, get_log_level(line), by, n)>> ELSE <<>>

\* ... and its log event emitted
ReadLog(r, s, logOk) ==
    /\ reader[r][s] = "logging"
    /\ LET n == Len(lines[r][s])
           line == lines[r][s][n]
       IN  /\ sink' = [sink EXCEPT ![r] = @ \o LogOnly(line, s, n, logOk)]
           /\ rejected' = [rejected EXCEPT ![r] = @ \/ ~logOk]
    /\ reader' = [reader EXCEPT ![r][s] = "reading"]
    /\ UNCHANGED <<pc, config, child, slot, lock, worker, wrote, rdpos, lines,
                   exit_status, result, cpc, cresult>>
    /\ UNCHANGED call

\* next_line() returns Ok(None): the pipe is empty and its write end is closed
ReadEof(r, s) ==
    /\ reader[r][s] = "reading"
    /\ rdpos[r][s] = Len(wrote[r][s])
    /\ Dead(r)
    /\ reader' = [reader EXCEPT ![r][s] = "eof"]
    /\ UNCHANGED <<pc, config, child, slot, lock, worker, wrote, rdpos, lines,
                   exit_status, sink, result, cpc, cresult>>
    /\ UNCHANGED rejected
    /\ UNCHANGED call

\* next_line() returns Err: the loop ends as at end-of-stream
ReadError(r, s) ==
    /\ reader[r][s] = "reading"
    /\ reader' = [reader EXCEPT ![r][s] = "failed"]
    /\ UNCHANGED <<pc, config, child, slot, lock, worker, wrote, rdpos, lines,
                   exit_status, sink, result, cpc, cresult>>
    /\ UNCHANGED rejected
    /\ UNCHANGED call

\* ------------------------------------------------------- the worker
\* the read end of the pipe is held by the run or by its reader task
ReadEndOpen(r, s) == pc[r] = "publish" \/ reader[r][s] \in {"reading", "logging"}

\* the worker writes a line; a full pipe or a closed read end stops it
WorkerWrite(r, s, line) ==
    /\ worker[r].state = "running"
    /\ Len(wrote[r]["stdout"]) + Len(wrote[r]["stderr"]) < MaxLines
    /\ ReadEndOpen(r, s)
    /\ Len(wrote[r][s]) - rdpos[r][s] < PipeCap
    /\ wrote' = [wrote EXCEPT ![r][s] = Append(@, line)]
    /\ UNCHANGED <<pc, config, child, slot, lock, worker, rdpos, reader, lines,
                   exit_status, sink, result, cpc, cresult>>
    /\ UNCHANGED rejected
    /\ UNCHANGED call

\* the worker ends of its own accord, or by a signal nobody here sent
WorkerExit(r, st) ==
    /\ worker[r].state = "running"
    /\ worker' = [worker EXCEPT ![r] = Exited(st)]
    /\ UNCHANGED <<pc, config, child, slot, lock, wrote, rdpos, reader, lines,
                   exit_status, sink, result, cpc, cresult>>
    /\ UNCHANGED rejected
    /\ UNCHANGED call

\* ------------------------------------------------------ stop_python_task
\* what child.kill() can answer: "ok" the signal was sent, "exited" an error
\* whose text says the process already exited, "other" any other error
KillAnswers(w) ==
    IF worker[w].state = "running" THEN {"ok", "other"} ELSE {"ok", "exited", "other"}

\* the worker after a delivered SIGKILL
Killed(w) == IF worker[w].state = "running" THEN KilledWorker ELSE worker[w]

\* variant: an empty slot is reported as a completed task
NotRunningAsCompleted == <<"Task already completed">>

\* Err("No task is currently running")
NotRunning == <<"No task is currently running">>
\* Ok("Task cancelled successfully")
Cancelled == <<"Task cancelled successfully">>
\* Ok("Task already completed")
AlreadyCompleted == <<"Task already completed">>
\* Err("Failed to cancel task: ...")
CancelFailed == <<"Failed to cancel task">>

\* variant: the text of the error is not looked at
KillErrorResultUnclassified(answer) == CancelFailed

\* the value of stop_python_task when child.kill().await returned an error
KillErrorResult(answer) ==
    IF answer = "exited" THEN AlreadyCompleted ELSE CancelFailed

\* variant: the slot is cleared whatever child.kill() answered
SlotAfterKillCleared(answer) == <<>>

\* variant: the slot is never cleared by stop_python_task
SlotAfterKillKept(answer) == slot

\* the slot when stop_python_task returns: cleared (*child_guard = None) after
\* Ok and after an already-exited error, left as it is after any other error
SlotAfterKill(answer) ==
    IF answer \in {"ok", "exited"} THEN <<>> ELSE slot

\* stop_python_task up to the first suspension inside child.kill().await:
\* lock, look at the slot, send the signal.
StopBegin(c, answer) ==
    /\ cpc[c] = "idle"
    /\ lock = <<>>
    /\ IF Len(slot) = 0
       THEN /\ cresult' = [cresult EXCEPT ![c] = NotRunning]
            /\ cpc' = [cpc EXCEPT ![c] = "done"]
            /\ UNCHANGED <<slot, lock, worker>>
       ELSE LET w == slot[1].w
            IN  /\ answer \in KillAnswers(w)
                /\ CASE answer = "ok" ->
                          \* start_kill() succeeded; kill() now awaits the child's exit
                          /\ worker' = [worker EXCEPT ![w] = Killed(w)]
                          /\ lock' = <<"cancel", c>>
                          /\ cpc' = [cpc EXCEPT ![c] = "kill_wait"]
                          /\ UNCHANGED <<slot, cresult>>
                     [] OTHER ->
                          \* Err(e): the text of e decides
                          /\ slot' = SlotAfterKill(answer)
                          /\ cresult' = [cresult EXCEPT ![c] = KillErrorResult(answer)]
                          /\ cpc' = [cpc EXCEPT ![c] = "done"]
                          /\ UNCHANGED <<lock, worker>>
    /\ UNCHANGED <<pc, config, child, wrote, rdpos, reader, lines, exit_status,
                   sink, result>>
    /\ UNCHANGED rejected
    /\ UNCHANGED call

\* child.kill().await returns Ok: the slot is cleared and the guard dropped
StopFinish(c) ==
    /\ cpc[c] = "kill_wait"
    /\ slot' = SlotAfterKill("ok")
    /\ lock' = <<>>
    /\ cresult' = [cresult EXCEPT ![c] = Cancelled]
    /\ cpc' = [cpc EXCEPT ![c] = "done"]
    /\ UNCHANGED <<pc, config, child, worker, wrote, rdpos, reader, lines,
                   exit_status, sink, result>>
    /\ UNCHANGED rejected
    /\ UNCHANGED call

\* ------------------------------------------- the wait of main.rs
\* main.rs: { let child_opt = child_guard.take(); drop(child_guard); ... }
TakeChild(r, warnLogOk) ==
    /\ pc[r] = "wait"
    /\ lock = <<>>
    /\ slot' = <<>>
    /\ IF Len(slot) = 0
       THEN /\ sink' = [sink EXCEPT ![r] =
                  IF warnLogOk
                  THEN Append(@, LogEvent(<<"Child process was cancelled">>,
                                          "warning", "main", 0))
                  ELSE @]
            /\ pc' = [pc EXCEPT ![r] = "done"]
            /\ result' = [result EXCEPT ![r] = <<ErrResult("Child process was cancelled")>>]
            /\ UNCHANGED child
       ELSE /\ child' = [child EXCEPT ![r] = slot]
            /\ pc' = [pc EXCEPT ![r] = "waiting"]
            /\ UNCHANGED <<sink, result>>
    /\ rejected' = [rejected EXCEPT ![r] = @ \/ (Len(slot) = 0 /\ ~warnLogOk)]
    /\ UNCHANGED <<config, lock, worker, wrote, rdpos, reader, lines, exit_status,
                   cpc, cresult>>
    /\ UNCHANGED call

\* main.rs: child.wait().await returns, with the status or with an error
AwaitChild(r, waitFails, errLogOk) ==
    /\ pc[r] = "waiting"
    /\ LET w == child[r][1].w
       IN  IF waitFails
           THEN /\ sink' = [sink EXCEPT ![r] =
                      IF errLogOk
                      THEN Append(@, LogEvent(<<"Failed to wait for process">>,
                                              "error", "main", 0))
                      ELSE @]
                /\ pc' = [pc EXCEPT ![r] = "done"]
                /\ result' = [result EXCEPT ![r] =
                      <<ErrResult("Failed to wait for process")>>]
                /\ UNCHANGED exit_status
           ELSE /\ Dead(w)
                /\ exit_status' = [exit_status EXCEPT ![r] = <<worker[w].status>>]
                /\ pc' = [pc EXCEPT ![r] = "join_stdout"]
                /\ UNCHANGED <<sink, result>>
    /\ child' = [child EXCEPT ![r] = <<>>]
    /\ rejected' = [rejected EXCEPT ![r] = @ \/ (waitFails /\ ~errLogOk)]
    /\ UNCHANGED <<config, slot, lock, worker, wrote, rdpos, reader, lines, cpc, cresult>>
    /\ UNCHANGED call

\* ------------------------------------------------------- specifications
\* the steps of the environment a failure can come from
FailableSteps(v) == (1..LastStep) \ ({StepBuildArgs} \cup SkippedSteps(v))

\* the invocation the one-run specifications follow
Solo == {1}

\* process.rs, one run at a time, every failure the environment can produce;
\* the worker prints progress lines and every per-line event is delivered
Next ==
    \/ \E r \in Solo, cfg \in Configs, failAt \in {0} \cup FailableSteps("process"),
          errLogOk \in BOOLEAN : StartRun("process", r, cfg, failAt, errLogOk)
    \/ \E r \in Solo : StoreChild(r)
    \/ \E r \in Solo, waitFails \in BOOLEAN, errLogOk \in BOOLEAN :
          PollChild(r, waitFails, errLogOk)
    \/ \E r \in Solo : WakeUp(r)
    \/ \E r \in Solo : JoinStdout(r)
    \/ \E r \in Solo, emitOk \in BOOLEAN : JoinStderrAndReport(r, emitOk)
    \/ \E r \in Solo, s \in Streams : ReadLine("process", r, s, TRUE, TRUE)
    \/ \E r \in Solo, s \in Streams : ReadEof(r, s)
    \/ \E r \in Solo, s \in Streams : ReadError(r, s)
    \/ \E r \in Solo, s \in Streams : WorkerWrite(r, s, L_progress)
    \/ \E r \in Solo, st \in ExitStatuses : WorkerExit(r, st)
    \/ \E c \in Cancels, answer \in {"ok", "exited", "other"} : StopBegin(c, answer)
    \/ \E c \in Cancels : StopFinish(c)

Spec == Init /\ [][Next]_vars

\* ENABLED ReadLine("process", r, s, TRUE, TRUE), written out
CanRead(r, s) == reader[r][s] = "reading" /\ Readable(r, s)
\* WF_vars(ReadLine("process", r, s, TRUE, TRUE)), with its ENABLED written out
FairReader(r, s) ==
    \/ []<>(~CanRead(r, s))
    \/ []<><<ReadLine("process", r, s, TRUE, TRUE)>>_vars

\* the same, with the runtime running every task it was given: the wait loop
\* and the joins of the run, the reader tasks up to end-of-stream, and a
\* stop_python_task suspended in child.kill().await; nothing is assumed of
\* the worker or of when stop_python_task is called
SpecTerm ==
    /\ Init /\ [][Next]_vars
    /\ \A r \in Solo :
          /\ WF_vars(\E waitFails \in BOOLEAN, errLogOk \in BOOLEAN :
                        PollChild(r, waitFails, errLogOk))
          /\ WF_vars(WakeUp(r))
          /\ WF_vars(JoinStdout(r))
          /\ WF_vars(\E emitOk \in BOOLEAN : JoinStderrAndReport(r, emitOk))
          /\ \A s \in Streams : FairReader(r, s) /\ WF_vars(ReadEof(r, s))
    /\ \A c \in Cancels : WF_vars(StopFinish(c))

\* the same, with the runtime running what it was given to run: the run's own
\* task up to the tokio::spawn of its reader tasks, and each reader task;
\* nothing is assumed of the wait loop, the worker or stop_python_task
SpecDrain ==
    /\ Init /\ [][Next]_vars
    /\ \A r \in Solo :
          /\ WF_vars(StoreChild(r))
          /\ \A s \in Streams : FairReader(r, s)

\* process.rs, MaxRuns invocations that nothing keeps apart, silent workers:
\* what the runs do to each other through the one slot
NextRace ==
    \/ \E r \in Runs, failAt \in {0, StepLogSpawned} :
          StartRun("process", r, CfgBuild, failAt, TRUE)
    \/ \E r \in Runs : StoreChild(r)
    \/ \E r \in Runs : PollChild(r, FALSE, TRUE)
    \/ \E r \in Runs : WakeUp(r)
    \/ \E r \in Runs : JoinStdout(r)
    \/ \E r \in Runs : JoinStderrAndReport(r, TRUE)
    \/ \E r \in Runs, s \in Streams : ReadEof(r, s)
    \/ \E r \in Runs, st \in {StatusCode(0), StatusCode(2)} : WorkerExit(r, st)
    \/ \E c \in Cancels, answer \in {"ok", "exited", "other"} : StopBegin(c, answer)
    \/ \E c \in Cancels : StopFinish(c)

SpecRace == Init /\ [][NextRace]_vars

\* the copy of the two commands in main.rs, one run at a time
NextMain ==
    \/ \E r \in Solo, cfg \in Configs, failAt \in {0} \cup FailableSteps("main"),
          errLogOk \in BOOLEAN : StartRun("main", r, cfg, failAt, errLogOk)
    \/ \E r \in Solo : StoreChild(r)
    \/ \E r \in Solo, warnLogOk \in BOOLEAN : TakeChild(r, warnLogOk)
    \/ \E r \in Solo, waitFails \in BOOLEAN, errLogOk \in BOOLEAN :
          AwaitChild(r, waitFails, errLogOk)
    \/ \E r \in Solo : JoinStdout(r)
    \/ \E r \in Solo, emitOk \in BOOLEAN : JoinStderrAndReport(r, emitOk)
    \/ \E r \in Solo, s \in Streams : ReadLine("main", r, s, TRUE, TRUE)
    \/ \E r \in Solo, s \in Streams : ReadEof(r, s)
    \/ \E r \in Solo, s \in Streams : ReadError(r, s)
    \/ \E r \in Solo, s \in Streams : WorkerWrite(r, s, L_progress)
    \/ \E r \in Solo, st \in ExitStatuses : WorkerExit(r, st)
    \/ \E c \in Cancels, answer \in {"ok", "exited", "other"} : StopBegin(c, answer)
    \/ \E c \in Cancels : StopFinish(c)

SpecMain == Init /\ [][NextMain]_vars

\* process.rs, one run with a valid config and a window that may refuse any
\* event: the emits of the prefix, of the reader tasks and of the completion
NextSink ==
    \/ \E r \in Solo, failAt \in {0} \cup (EmitSteps \ SkippedSteps("process")) :
          StartRun("process", r, CfgBuild, failAt, TRUE)
    \/ \E r \in Solo : StoreChild(r)
    \/ \E r \in Solo : PollChild(r, FALSE, TRUE)
    \/ \E r \in Solo : WakeUp(r)
    \/ \E r \in Solo : JoinStdout(r)
    \/ \E r \in Solo, emitOk \in BOOLEAN : JoinStderrAndReport(r, emitOk)
    \/ \E r \in Solo, s \in Streams, progressOk \in BOOLEAN :
          ReadProgress("process", r, s, progressOk)
    \/ \E r \in Solo, s \in Streams, logOk \in BOOLEAN : ReadLog(r, s, logOk)
    \/ \E r \in Solo, s \in Streams : ReadEof(r, s)
    \/ \E r \in Solo, s \in Streams, line \in WorkerLines : WorkerWrite(r, s, line)
    \/ \E r \in Solo, st \in {StatusCode(0), StatusCode(2)} : WorkerExit(r, st)

SpecSink == Init /\ [][NextSink]_vars

\* ------------------------------------------- the pure functions, called alone
\* everything but `call`
taskVars == <<pc, config, child, slot, lock, worker, wrote, rdpos, reader, lines,
              exit_status, sink, result, cpc, cresult, rejected>>

\* the call has its argument and not yet its value
Pending(fn) == call.fn = fn /\ call.ret = <<>>
\* the call has returned
Applied(fn) == call.fn = fn /\ Len(call.ret) = 1

\* skin paths: empty, blank, plain, padded, and two that read like options
ArgSkins == {<<>>, <<" ">>, <<"s">>, <<" ", "s", " ">>, S_bundle_flag, S_dry_run}
\* bundle paths: empty, blank, plain, padded, and one that reads like an option
ArgBundles == {<<>>, <<" ">>, <<"b">>, <<"b", " ">>, S_debug_export}
ArgConfigs ==
    [skin_path : ArgSkins, bundles_path : ArgBundles,
     debug_export : BOOLEAN, dry_run : BOOLEAN]

InitArgs ==
    /\ Quiet
    /\ call \in {[fn |-> "build_cli_args", src |-> <<>>, arg |-> c, ret |-> <<>>] :
                    c \in ArgConfigs}

\* build_cli_args(&config)
CallBuildCliArgs ==
    /\ Pending("build_cli_args")
    /\ call' = [call EXCEPT !.ret = <<build_cli_args(call.arg)>>]
    /\ UNCHANGED taskVars

NextArgs == CallBuildCliArgs

SpecArgs == InitArgs /\ [][NextArgs]_vars

\* the pieces a line is put together from, a single space between two of them:
\* the marker, words, numbers, a number with a colon, nothing (which doubles
\* a space or pads the line), a number beyond u32, and a triple held together
\* by tabs
Pieces == {"marker", "of", "3", "07", "10:", "foo", "",
           "4294967296", "tabbed"}
PieceText(e) ==
    CASE e = "marker" -> S_marker
      [] e = "of"     -> S_of
      [] e = "3"      -> <<"3">>
      [] e = "07"     -> <<"0", "7">>
      [] e = "10:"    -> <<"1", "0", ":">>
      [] e = "foo"    -> <<"f", "o", "o">>
      [] e = ""       -> <<>>
      [] e = "4294967296" -> <<"4", "2", "9", "4", "9", "6", "7", "2", "9", "6">>
      [] e = "tabbed" -> <<"3", "\t", "o", "f", "\t", "0", "7">>
LineOf(src) == JoinWith([i \in 1..Len(src) |-> PieceText(src[i])], <<" ">>)
\* the lines of n pieces
ProgressLines(n) == [1..n -> Pieces]

InitParse ==
    /\ Quiet
    /\ \E n \in 0..MaxPieces : \E src \in ProgressLines(n) :
          call = [fn |-> "parse_progress", src |-> src, arg |-> LineOf(src), ret |-> <<>>]

\* parse_progress(&line)
CallParseProgress ==
    /\ Pending("parse_progress")
    /\ call' = [call EXCEPT !.ret = <<parse_progress(call.arg)>>]
    /\ UNCHANGED taskVars

NextParse == CallParseProgress

SpecParse == InitParse /\ [][NextParse]_vars

\* the words a line to classify is put together from, a single space between
\* two of them: markers in several spellings, alone or inside a longer word,
\* and words that are no marker
LevelWords == {"error", "ERROR:", "xErRoRx", "Critical", "glyph",
               "warn", "Warning", "DEBUG", "ok", "err"}
WordChars(e) ==
    CASE e = "error"    -> <<"e", "r", "r", "o", "r">>
      [] e = "ERROR:"   -> <<"E", "R", "R", "O", "R", ":">>
      [] e = "xErRoRx"  -> <<"x", "E", "r", "R", "o", "R", "x">>
      [] e = "Critical" -> <<"C", "r", "i", "t", "i", "c", "a", "l">>
      [] e = "glyph"    -> <<Glyph>>
      [] e = "warn"     -> <<"w", "a", "r", "n">>
      [] e = "Warning"  -> <<"W", "a", "r", "n", "i", "n", "g">>
      [] e = "DEBUG"    -> <<"D", "E", "B", "U", "G">>
      [] e = "ok"       -> <<"o", "k">>
      [] e = "err"      -> <<"e", "r", "r">>
LogLineOf(src) == JoinWith([i \in 1..Len(src) |-> WordChars(src[i])], <<" ">>)
\* the lines of n words
LogLines(n) == [1..n -> LevelWords]

InitLevel ==
    /\ Quiet
    /\ \E n \in 0..MaxWords : \E src \in LogLines(n) :
          call = [fn |-> "get_log_level", src |-> src, arg |-> LogLineOf(src), ret |-> <<>>]

\* get_log_level(&line)
CallGetLogLevel ==
    /\ Pending("get_log_level")
    /\ call' = [call EXCEPT !.ret = <<get_log_level(call.arg)>>]
    /\ UNCHANGED taskVars

NextLevel == CallGetLogLevel

SpecLevel == InitLevel /\ [][NextLevel]_vars

\* ================================================================ claims
HasComplete(events) == \E i \in 1..Len(events) : events[i].kind = "build_complete"
Returned(r) == Len(result[r]) = 1
ReturnedOk(r) == Returned(r) /\ result[r][1].ok
ReturnedErr(r, msgs) == Returned(r) /\ ~result[r][1].ok /\ result[r][1].err \in msgs
\* stop_python_task c returns in this step
Returns(c) == cpc[c] # "done" /\ cpc'[c] = "done"
\* stop_python_task c is called in this step
Called(c) == cpc[c] = "idle" /\ cpc'[c] # "idle"

\* C1: the slot never holds a child whose stdout or stderr pipe is still
\* attached, and a run that failed to capture a pipe never has its child in
\* the slot.
C1_PipesCapturedBeforePublish ==
    /\ Len(slot) = 1 => (~slot[1].stdout /\ ~slot[1].stderr)
    /\ \A r \in Runs :
          ReturnedErr(r, {"Failed to capture stdout", "Failed to capture stderr"})
             => (Len(slot) = 0 \/ slot[1].w # r)

C1_Witness == Len(slot) = 1 /\ pc[slot[1].w] \in {"wait", "sleep"}

InFlight == {r \in Runs : pc[r] \notin {"idle", "done"}}
\* the Child values that exist (in the slot or local to a run) for a live worker
LiveHandles ==
    {h \in {slot[i] : i \in 1..Len(slot)}
           \cup UNION {{child[r][i] : i \in 1..Len(child[r])} : r \in Runs} :
        worker[h.w].state = "running"}

\* C3: at most one run is in flight, and at most one handle of a live worker
\* exists.
C3_OneRunAtATime ==
    /\ Cardinality(InFlight) <= 1
    /\ Cardinality(LiveHandles) <= 1

\* C4 as claimed: whenever stop_python_task returns after having found a
\* handle, the slot is empty.
C4_Original ==
    [][\A c \in Cancels :
          (Returns(c) /\ cresult'[c] # <<"No task is currently running">>)
             => slot' = <<>>]_vars

\* C4, amended: stop_python_task that finds a handle sends the termination
\* signal while it holds the lock; when it returns Cancelled or
\* AlreadyCompleted the slot is empty and the lock free; when the signal fails
\* for another reason it returns an error and the handle stays in the slot.
C4_CancelTakesHandle ==
    [][\A c \in Cancels :
          /\ (Called(c) /\ cpc'[c] = "kill_wait") =>
                /\ Len(slot) = 1 /\ slot' = slot
                /\ lock' = <<"cancel", c>>
                /\ worker'[slot[1].w].state # "running"
          /\ Returns(c) =>
                /\ cresult'[c] \in {Cancelled, AlreadyCompleted} =>
                      (slot' = <<>> /\ lock' = <<>> /\ Len(slot) = 1)
                /\ cresult'[c] = CancelFailed =>
                      (slot' = slot /\ Len(slot) = 1)]_vars

C4_Witness ==
    \E c \in Cancels : cresult[c] = Cancelled /\ Len(slot) = 0 /\ lock = <<>>

\* C5: a pass of the wait loop that finds the slot empty ends the run at once
\* with the error "Task was cancelled", emitting nothing; such a run never
\* has a build_complete event.
C5_EmptySlotEndsRun ==
    /\ [][\A r \in Runs :
            (pc[r] = "wait" /\ Len(slot) = 0 /\ pc'[r] # "wait") =>
                /\ pc'[r] = "done"
                /\ result'[r] = <<ErrResult("Task was cancelled")>>
                /\ sink'[r] = sink[r]]_vars
    /\ [](\A r \in Runs :
            ReturnedErr(r, {"Task was cancelled"}) => ~HasComplete(sink[r]))

C5_Witness ==
    \E r \in Runs, c \in Cancels :
        /\ ReturnedErr(r, {"Task was cancelled"})
        /\ cresult[c] = Cancelled

\* the worker of a run ended of its own accord, and the wait loop has either
\* not looked yet (the handle is in the slot) or already recorded the exit
ExitedNaturally ==
    \E r \in Runs :
        /\ worker[r].state = "exited"
        /\ (Len(slot) = 1 /\ slot[1].w = r) \/ Len(exit_status[r]) = 1

C7_NotRunning ==
    [][\A c \in Cancels :
          (Called(c) /\ Len(slot) = 0) =>
              /\ cresult'[c] = <<"No task is currently running">>
              /\ cpc'[c] = "done"
              /\ worker' = worker
              /\ slot' = <<>>
              /\ lock' = lock]_vars

C7_Witness ==
    \E c \in Cancels :
        cresult[c] = <<"No task is currently running">> /\ Len(slot) = 0

\* C8: no task is suspended while it holds the mutex: not the wait loop in
\* its sleep, not stop_python_task in its await on the worker.
C8_NoSuspendUnderLock ==
    /\ \A r \in Runs : lock = <<"run", r>> => pc[r] # "sleep"
    /\ \A c \in Cancels : lock = <<"cancel", c>> => cpc[c] # "kill_wait"

\* C9: stop_python_task called while a run awaits its running worker finds
\* that worker's handle, and once the handle has been taken the run's next
\* look at the slot ends it as cancelled.
C9_CancelObserved ==
    [][/\ \A c \in Cancels :
             (/\ Called(c)
              /\ \E r \in Runs : /\ pc[r] \in {"wait", "sleep", "waiting"}
                                 /\ worker[r].state = "running")
                => cresult'[c] # NotRunning
       /\ \A r \in Runs :
             (pc[r] = "wait" /\ Len(slot) = 0 /\ pc'[r] # "wait")
                => (Returned(r)' /\ ~result'[r][1].ok)]_vars

\* C10: a run that failed to resolve the executable or to spawn the worker
\* has returned an error, has no worker, no reader task and no build_complete
\* event, and the slot is empty; and no run gets past the spawn without a
\* worker.
C10_SpawnError ==
    \A r \in Runs :
        /\ pc[r] \notin {"idle", "done"} => worker[r].state # "none"
        /\ ReturnedErr(r, {"Failed to resolve backend binary path",
                           "Backend binary not found",
                           "Failed to spawn Python process"}) =>
              /\ pc[r] = "done"
              /\ worker[r] = NoWorker
              /\ Len(slot) = 0 /\ Len(child[r]) = 0
              /\ \A s \in Streams : reader[r][s] = "none"
              /\ ~HasComplete(sink[r])

C10_Witness ==
    \E r \in Runs : ReturnedErr(r, {"Failed to spawn Python process"})

\* C11: when child.try_wait() fails in the wait loop, the run clears the slot
\* and returns the error in that same pass; it never polls again and never
\* has a build_complete event.
C11_WaitErrorEndsRun ==
    /\ [][\A r \in Runs :
            (pc[r] = "wait" /\ ReturnedErr(r, {"Failed to check process status"})') =>
                /\ Len(slot) = 1 /\ slot' = <<>>
                /\ pc'[r] = "done"
                /\ ~HasComplete(sink'[r])]_vars
    /\ [][\A r \in Runs :
            ReturnedErr(r, {"Failed to check process status"}) =>
                (pc'[r] = "done" /\ result'[r] = result[r] /\ ~HasComplete(sink'[r]))]_vars

C11_Witness ==
    \E r \in Runs :
        /\ ReturnedErr(r, {"Failed to check process status"})
        /\ worker[r].state = "running"
        /\ Len(slot) = 0

\* run_python_task r has been called
Started(r) == pc[r] # "idle"
\* the skin path of the run's config is empty after trimming
BlankSkin(r) == trim(config[r].skin_path) = <<>>
\* the run's task_started and "Validating configuration..." events were delivered
ReachedValidation(r) ==
    /\ Len(sink[r]) >= 2
    /\ sink[r][1].kind = "task_started"
    /\ sink[r][2].kind = "build_log"
NeverSpawned(r) ==
    /\ worker[r] = NoWorker
    /\ Len(child[r]) = 0
    /\ Len(slot) = 0
    /\ \A s \in Streams : reader[r][s] = "none" /\ wrote[r][s] = <<>>

\* C12 as claimed: a run called with a blank skin path has returned the
\* configuration error; no worker exists, the slot is empty, no reader started.
C12_Original ==
    \A r \in Runs :
        (Started(r) /\ BlankSkin(r)) =>
            /\ ReturnedErr(r, {"Configuration error: Skin folder is required."})
            /\ NeverSpawned(r)

\* C12, amended: a run called with a blank skin path fails before any worker
\* is spawned: no worker exists, the slot is empty and no reader task is
\* started.  Its error is the configuration error once the task_started and
\* the validating events have been delivered, and otherwise the error of the
\* one of those two emits that failed.
C12_BlankSkinNeverSpawns ==
    \A r \in Runs :
        (Started(r) /\ BlankSkin(r)) =>
            /\ pc[r] = "done"
            /\ ReturnedErr(r, {"Configuration error: Skin folder is required.",
                               "Failed to emit task_started",
                               "Failed to emit build_log"})
            /\ ReachedValidation(r) <=>
                  ReturnedErr(r, {"Configuration error: Skin folder is required."})
            /\ NeverSpawned(r)

C12_Witness ==
    \E r \in Runs :
        /\ BlankSkin(r)
        /\ ReturnedErr(r, {"Configuration error: Skin folder is required."})
        /\ NeverSpawned(r)

HasErrorLog(events) ==
    \E i \in 1..Len(events) :
        events[i].kind = "build_log" /\ events[i].level = "error"
\* the errors of the fatal conditions: configuration, executable not found,
\* spawn, pipe capture, process status
FatalErrors ==
    {"Configuration error: Skin folder is required.",
     "Failed to resolve backend binary path", "Backend binary not found",
     "Failed to spawn Python process",
     "Failed to capture stdout", "Failed to capture stderr",
     "Failed to check process status", "Failed to wait for process"}

\* C13: a run that returned the error of a fatal condition, and none of whose
\* events the window refused, has delivered an error-level build_log event.
C13_FatalErrorsLogged ==
    \A r \in Runs :
        (ReturnedErr(r, FatalErrors) /\ ~rejected[r]) => HasErrorLog(sink[r])

\* the errors of the two milestone emits
MilestoneErrors == {"Failed to emit task_started", "Failed to emit completion"}

\* C14: with nothing failing but emits, a run ends as it would with every
\* build_log and build_progress delivered: it returns its CommandResult or the
\* error of a milestone emit, never the error of a routine emit, and a worker
\* that was spawned is published to the slot.
C14_RoutineEmitNeverAborts ==
    \A r \in Runs :
        /\ Returned(r) => (ReturnedOk(r) \/ ReturnedErr(r, MilestoneErrors))
        /\ (Returned(r) /\ worker[r].state # "none") =>
              \A s \in Streams : reader[r][s] # "none"

\* C15: a run whose task_started event was refused returns that emit's error
\* with no event delivered and no worker spawned; a run whose build_complete
\* event was refused returns that emit's error and no CommandResult; and a
\* CommandResult is returned only with build_complete delivered.
C15_MilestoneFailureAborts ==
    /\ [][\A r \in Runs :
            /\ (pc[r] = "idle" /\ pc'[r] # "idle" /\ Len(sink'[r]) = 0) =>
                  /\ ReturnedErr(r, {"Failed to emit task_started"})'
                  /\ pc'[r] = "done"
                  /\ worker'[r] = NoWorker /\ slot' = slot
            /\ (pc[r] = "join_stderr" /\ pc'[r] # "join_stderr") =>
                  IF HasComplete(sink'[r])
                  THEN ReturnedOk(r)'
                  ELSE ReturnedErr(r, {"Failed to emit completion"})' /\ pc'[r] = "done"
       ]_vars
    /\ [](\A r \in Runs :
            /\ ReturnedErr(r, {"Failed to emit task_started"}) =>
                  (sink[r] = <<>> /\ NeverSpawned(r))
            /\ ReturnedErr(r, {"Failed to emit completion"}) => ~HasComplete(sink[r])
            /\ ReturnedOk(r) => HasComplete(sink[r])
            /\ worker[r].state # "none" => sink[r][1].kind = "task_started")

C15_Witness ==
    \E r \in Runs :
        /\ ReturnedErr(r, {"Failed to emit completion"})
        /\ Len(exit_status[r]) = 1
        /\ rejected[r]

\* the positions of the events of a kind in a sequence of events
Positions(events, kind) == {i \in 1..Len(events) : events[i].kind = kind}

\* C16: a run's sink holds at most one build_complete, nothing follows it,
\* and a run that returned its CommandResult has emitted it.
C16_CompleteOnceAndLast ==
    \A r \in Runs :
        /\ Cardinality(Positions(sink[r], "build_complete")) <= 1
        /\ Positions(sink[r], "build_complete") \subseteq {Len(sink[r])}
        /\ ReturnedOk(r) => Positions(sink[r], "build_complete") = {Len(sink[r])}
        /\ HasComplete(sink[r]) => \A s \in Streams : reader[r][s] \in {"eof", "failed"}

C16_Witness ==
    \E r \in Runs :
        /\ Positions(sink[r], "build_complete") = {Len(sink[r])}
        /\ \E i \in Positions(sink[r], "build_log") : sink[r][i].by = "stdout"
        /\ \E i \in Positions(sink[r], "build_progress") : sink[r][i].by = "stderr"

\* C17: a run's sink holds at most one task_started and it is the first event;
\* a run that got as far as validating its arguments or spawning its worker
\* has emitted it.
C17_TaskStartedFirst ==
    \A r \in Runs :
        /\ Positions(sink[r], "task_started") \subseteq {1}
        /\ Len(sink[r]) > 0 => Positions(sink[r], "task_started") = {1}
        /\ ReturnedErr(r, {"Configuration error: Skin folder is required."}) =>
              Positions(sink[r], "task_started") = {1}
        /\ (worker[r].state # "none" \/ Len(child[r]) = 1) =>
              Positions(sink[r], "task_started") = {1}
        /\ (Started(r) /\ ~ReturnedErr(r, {"Failed to emit task_started"})) =>
              Positions(sink[r], "task_started") = {1}

C17_Witness ==
    \E r \in Runs :
        /\ Positions(sink[r], "task_started") = {1}
        /\ Positions(sink[r], "build_complete") # {}
        /\ Positions(sink[r], "build_progress") # {}
        /\ worker[r].state = "exited"

\* C18: among the events of one stream, those of an earlier line precede
\* those of a later line, and a line's build_progress precedes its build_log;
\* each line has at most one event of each kind.
C18_ProgressBeforeLog ==
    \A r \in Runs, s \in Streams :
        \A i, j \in {k \in 1..Len(sink[r]) : sink[r][k].by = s} :
            i < j =>
                \/ sink[r][i].n < sink[r][j].n
                \/ /\ sink[r][i].n = sink[r][j].n
                   /\ sink[r][i].kind = "build_progress"
                   /\ sink[r][j].kind = "build_log"

\* the events of the two streams interleaved, the other stream's progress
\* event between a line's progress event and its log event
C18_Witness ==
    \E r \in Runs :
        \E i, j, k, l \in 1..Len(sink[r]) :
            /\ i < j /\ j < k /\ k < l
            /\ sink[r][i].by = "stdout" /\ sink[r][i].kind = "build_progress"
            /\ sink[r][j].by = "stderr" /\ sink[r][j].kind = "build_progress"
            /\ sink[r][k].by = "stdout" /\ sink[r][k].kind = "build_log"
            /\ sink[r][l].by = "stderr" /\ sink[r][l].kind = "build_log"
            /\ sink[r][i].n = sink[r][k].n

\* run r has stored its child: it waits, joins or has returned after that
Published(r) == \E s \in Streams : reader[r][s] # "none"

\* C19: the slot becomes occupied only from empty, by the store of a run whose
\* worker is spawned and whose pipes are taken; it becomes empty only by a pass
\* of the wait loop that saw the exit or a status error, or by a
\* stop_python_task that returns Ok; and it is empty when a run that stored
\* its child returns, and from then on.
C19_SlotLifecycle ==
    /\ [][/\ (slot' # slot /\ Len(slot') = 1) =>
                \E r \in Runs :
                    /\ Len(slot) = 0
                    /\ pc[r] = "publish" /\ pc'[r] = "wait"
                    /\ slot' = child[r] /\ slot'[1].w = r
                    /\ worker[r].state # "none"
                    /\ ~slot'[1].stdout /\ ~slot'[1].stderr
          /\ (Len(slot) = 1 /\ Len(slot') = 0) =>
                \/ \E r \in Runs :
                      /\ pc[r] = "wait"
                      /\ \/ pc'[r] = "join_stdout" /\ Len(exit_status'[r]) = 1
                         \/ ReturnedErr(r, {"Failed to check process status"})'
                \/ \E c \in Cancels :
                      Returns(c) /\ cresult'[c] \in {<<"Task cancelled successfully">>,
                                                     <<"Task already completed">>}
          /\ \A r \in Runs :
                (Published(r) /\ pc[r] # "done" /\ pc'[r] = "done") => slot' = <<>>
         ]_vars
    /\ [](\A r \in Runs : (Published(r) /\ Returned(r)) => slot = <<>>)

C19_Witness ==
    \E r \in Runs, c \in Cancels :
        /\ Published(r) /\ ReturnedOk(r)
        /\ cresult[c] = <<"Failed to cancel task">>
        /\ slot = <<>>

\* the state of the supervisor's state machine a run is in
Phase(r) ==
    CASE pc[r] = "idle" -> "Idle"
      [] pc[r] = "publish" -> "Spawning"
      [] pc[r] = "done" /\ ReturnedOk(r) -> "Completed"
      [] pc[r] = "done" /\ ReturnedErr(r, {"Task was cancelled",
                                           "Child process was cancelled"}) -> "Cancelled"
      [] pc[r] = "done" -> "Failed"
      [] OTHER -> "Running"
PhaseSteps ==
    {<<"Idle", "Spawning">>, <<"Idle", "Failed">>, <<"Spawning", "Running">>,
     <<"Running", "Completed">>, <<"Running", "Cancelled">>, <<"Running", "Failed">>}

\* C20: a run changes state only along Idle -> Spawning -> Running -> one of
\* Completed, Cancelled, Failed (a failure before the child is stored ends it
\* as Failed at once); a terminal state and its result are never left; a run
\* is Spawning past the spawn or Running only with a spawned worker; and each
\* terminal state has its own outcome: a CommandResult with build_complete, a
\* cancellation that took the handle, or another error.
C20_StateMachine ==
    /\ [][\A r \in Runs :
            /\ Phase(r)' # Phase(r) => <<Phase(r), Phase(r)'>> \in PhaseSteps
            /\ pc[r] = "done" => (pc'[r] = "done" /\ result'[r] = result[r])]_vars
    /\ [](\A r \in Runs :
            /\ Phase(r) \in {"Spawning", "Running"} =>
                  (worker[r].state # "none" /\ ~Returned(r))
            /\ Phase(r) = "Running" => Published(r)
            /\ Phase(r) \in {"Completed", "Cancelled", "Failed"} <=> Returned(r)
            /\ Phase(r) = "Completed" =>
                  (HasComplete(sink[r]) /\ Len(exit_status[r]) = 1)
            /\ Phase(r) = "Cancelled" =>
                  /\ ~HasComplete(sink[r])
                  /\ \E c \in Cancels :
                        cresult[c] \in {<<"Task cancelled successfully">>,
                                        <<"Task already completed">>}
            /\ Phase(r) = "Failed" => ~HasComplete(sink[r]))

C20_Witness ==
    \E r \in Runs :
        /\ Phase(r) = "Cancelled"
        /\ worker[r].state = "killed"
        /\ Published(r)

\* C21: in every build_complete event and CommandResult of a run, success is
\* true exactly when the worker's status is exit code 0, and the exit code is
\* the worker's numeric code, or -1 when the worker was ended by a signal, in
\* which case success is false.
C21_ExitCodeAndSuccess ==
    \A r \in Runs :
        /\ \A i \in Positions(sink[r], "build_complete") :
              /\ Len(exit_status[r]) = 1
              /\ exit_status[r][1] = worker[r].status
              /\ sink[r][i].success <=> (worker[r].status.code = <<0>>)
              /\ worker[r].status.code # <<>> =>
                    sink[r][i].exit_code = worker[r].status.code[1]
              /\ worker[r].status.code = <<>> =>
                    (sink[r][i].exit_code = -1 /\ ~sink[r][i].success)
        /\ ReturnedOk(r) =>
              result[r][1].status = sink[r][Len(sink[r])].exit_code

C21_Witness ==
    \E r \in Runs :
        /\ ReturnedOk(r)
        /\ worker[r].state = "exited" /\ worker[r].status.code = <<>>
        /\ result[r][1].status = -1

\* the decimal text of the exit codes the workers here end with
CodeText(n) ==
    CASE n = -1 -> <<"-", "1">>
      [] n = 0 -> <<"0">>
      [] n = 2 -> <<"2">>

\* C22: the message of every build_complete event is the literal chosen by
\* (success, dry_run): the preview or build success text, or the preview or
\* build failure text carrying the reported exit code.
C22_CompletionMessage ==
    \A r \in Runs :
        \A i \in Positions(sink[r], "build_complete") :
            LET e == sink[r][i]
                dry == config[r].dry_run
            IN  /\ (e.success /\ dry) => e.message =
                      <<"U+2713", " Preview completed successfully. No bundles were modified during this dry run.">>
                /\ (e.success /\ ~dry) => e.message =
                      <<"U+2713", " Build completed successfully. All bundles have been created.">>
                /\ (~e.success /\ dry) => e.message =
                      <<"U+2717", " Preview failed with exit code ">>
                      \o CodeText(e.exit_code) \o <<". Check the logs for details.">>
                /\ (~e.success /\ ~dry) => e.message =
                      <<"U+2717", " Build failed with exit code ">>
                      \o CodeText(e.exit_code) \o <<". Check the logs for details.">>

C22_Witness ==
    \E r \in Runs :
        /\ HasComplete(sink[r])
        /\ config[r].dry_run
        /\ sink[r][Len(sink[r])].message =
              <<"U+2717", " Preview failed with exit code ", "2",
                ". Check the logs for details.">>

RECURSIVE SplitLinesFrom(_, _, _)
SplitLinesFrom(text, i, cur) ==
    IF i > Len(text) THEN <<cur>>
    ELSE IF text[i] = "\n" THEN <<cur>> \o SplitLinesFrom(text, i + 1, <<>>)
    ELSE SplitLinesFrom(text, i + 1, Append(cur, text[i]))
\* the lines of a field of the result
SplitLines(text) == IF text = <<>> THEN <<>> ELSE SplitLinesFrom(text, 1, <<>>)
\* the positions of the build_log events the reader of stream s delivered for line n
LogsOfLine(r, s, n) ==
    {i \in Positions(sink[r], "build_log") : sink[r][i].by = s /\ sink[r][i].n = n}
\* the lines of stream s whose turn of the loop is over
Handled(r, s) ==
    IF reader[r][s] = "logging" THEN Len(lines[r][s]) - 1 ELSE Len(lines[r][s])

\* C23: each reader's list is the lines it has read, in the order the worker
\* wrote them; every build_log event of a reader carries the line of its
\* number, no line has two, and every handled line has one unless the window
\* refused an event; the stdout and stderr of the result, split at newlines,
\* are those lists, so their k-th line is the k-th line the worker wrote.
C23_LinesAndFields ==
    \A r \in Runs :
        /\ \A s \in Streams :
              /\ Len(lines[r][s]) = rdpos[r][s]
              /\ lines[r][s] = SubSeq(wrote[r][s], 1, rdpos[r][s])
              /\ \A i \in Positions(sink[r], "build_log") :
                    sink[r][i].by = s =>
                        /\ sink[r][i].n \in 1..Len(lines[r][s])
                        /\ sink[r][i].message = wrote[r][s][sink[r][i].n]
              /\ \A n \in 1..Len(lines[r][s]) :
                    /\ Cardinality(LogsOfLine(r, s, n)) <= 1
                    /\ (~rejected[r] /\ n <= Handled(r, s)) =>
                          Cardinality(LogsOfLine(r, s, n)) = 1
        /\ ReturnedOk(r) =>
              /\ SplitLines(result[r][1].stdout) = lines[r]["stdout"]
              /\ SplitLines(result[r][1].stderr) = lines[r]["stderr"]
              /\ \A k \in 1..Len(SplitLines(result[r][1].stdout)) :
                    SplitLines(result[r][1].stdout)[k] = wrote[r]["stdout"][k]
              /\ \A k \in 1..Len(SplitLines(result[r][1].stderr)) :
                    SplitLines(result[r][1].stderr)[k] = wrote[r]["stderr"][k]

C23_Witness ==
    \E r \in Runs :
        /\ ReturnedOk(r)
        /\ ~rejected[r]
        /\ wrote[r]["stdout"] = <<L_progress, L_zero>>
        /\ SplitLines(result[r][1].stdout) = <<L_progress, L_zero>>
        /\ Cardinality(LogsOfLine(r, "stdout", 2)) = 1

\* the number of places of a list that hold a token
Count(list, tok) == Cardinality({i \in 1..Len(list) : list[i] = tok})
\* the argument list a call of build_cli_args returned
ArgsBuilt == call.ret[1].args
\* the call of build_cli_args has returned a list
Built == Applied("build_cli_args") /\ call.ret[1].ok
\* the number of places the required pair and the bundle pair take
PathPlaces == IF trim(call.arg.bundles_path) # <<>> THEN 4 ELSE 2

\* C24 as stated: for a non-blank skin path S the list begins with "patch", S;
\* a non-blank bundles path, trimmed to B, puts "--bundle", B right after
\* that pair; with a blank bundles path "--bundle" is nowhere in the list.
C24_Original ==
    (Applied("build_cli_args") /\ trim(call.arg.skin_path) # <<>>) =>
        /\ call.ret[1].ok
        /\ Len(ArgsBuilt) >= 2
        /\ ArgsBuilt[1] = <<"p", "a", "t", "c", "h">>
        /\ ArgsBuilt[2] = call.arg.skin_path
        /\ trim(call.arg.bundles_path) # <<>> =>
              /\ Len(ArgsBuilt) >= 4
              /\ ArgsBuilt[3] = <<"-", "-", "b", "u", "n", "d", "l", "e">>
              /\ ArgsBuilt[4] = trim(call.arg.bundles_path)
        /\ trim(call.arg.bundles_path) = <<>> =>
              Count(ArgsBuilt, <<"-", "-", "b", "u", "n", "d", "l", "e">>) = 0

\* C24: for a non-blank skin path S the list begins with "patch" and S
\* trimmed; a non-blank bundles path, trimmed to B, puts "--bundle", B right
\* after that pair; with a blank bundles path no "--bundle" follows the pair.
C24_ArgsBegin ==
    (Applied("build_cli_args") /\ trim(call.arg.skin_path) # <<>>) =>
        /\ call.ret[1].ok
        /\ Len(ArgsBuilt) >= 2
        /\ ArgsBuilt[1] = <<"p", "a", "t", "c", "h">>
        /\ ArgsBuilt[2] = trim(call.arg.skin_path)
        /\ trim(call.arg.bundles_path) # <<>> =>
              /\ Len(ArgsBuilt) >= 4
              /\ ArgsBuilt[3] = <<"-", "-", "b", "u", "n", "d", "l", "e">>
              /\ ArgsBuilt[4] = trim(call.arg.bundles_path)
        /\ trim(call.arg.bundles_path) = <<>> =>
              \A i \in 3..Len(ArgsBuilt) :
                  ArgsBuilt[i] # <<"-", "-", "b", "u", "n", "d", "l", "e">>

C24_Witness ==
    /\ Built
    /\ call.arg.skin_path = <<"s">>
    /\ call.arg.bundles_path = <<"b", " ">>
    /\ SubSeq(ArgsBuilt, 1, 4) = <<S_patch, <<"s">>, S_bundle_flag, <<"b">>>>

\* C25 as stated: "--debug-export" is in the list once when debug_export is
\* set and never otherwise, "--dry-run" likewise for dry_run; the first
\* precedes the second, both come after the bundle pair, and the length is
\* 2, plus 2 with a non-blank bundles path, plus the number of set flags.
C25_Original ==
    Built =>
        /\ Count(ArgsBuilt, <<"-", "-", "d", "e", "b", "u", "g", "-", "e", "x", "p", "o", "r", "t">>)
              = (IF call.arg.debug_export THEN 1 ELSE 0)
        /\ Count(ArgsBuilt, <<"-", "-", "d", "r", "y", "-", "r", "u", "n">>)
              = (IF call.arg.dry_run THEN 1 ELSE 0)
        /\ \A i, j \in 1..Len(ArgsBuilt) :
              (/\ ArgsBuilt[i] = <<"-", "-", "d", "e", "b", "u", "g", "-", "e", "x", "p", "o", "r", "t">>
               /\ ArgsBuilt[j] = <<"-", "-", "d", "r", "y", "-", "r", "u", "n">>) => i < j
        /\ \A i \in 1..Len(ArgsBuilt) :
              ArgsBuilt[i] \in {<<"-", "-", "d", "e", "b", "u", "g", "-", "e", "x", "p", "o", "r", "t">>,
                                <<"-", "-", "d", "r", "y", "-", "r", "u", "n">>} => i > PathPlaces
        /\ Len(ArgsBuilt) = PathPlaces + (IF call.arg.debug_export THEN 1 ELSE 0)
                                       + (IF call.arg.dry_run THEN 1 ELSE 0)

\* the part of the list behind the required pair and the bundle pair
FlagsBuilt == SubSeq(ArgsBuilt, PathPlaces + 1, Len(ArgsBuilt))

\* C25: behind the required pair and the bundle pair, "--debug-export" is in
\* the list once when debug_export is set and never otherwise, "--dry-run"
\* likewise for dry_run, and the first precedes the second; the length is 2,
\* plus 2 with a non-blank bundles path, plus the number of set flags.
C25_Flags ==
    Built =>
        /\ Count(FlagsBuilt, <<"-", "-", "d", "e", "b", "u", "g", "-", "e", "x", "p", "o", "r", "t">>)
              = (IF call.arg.debug_export THEN 1 ELSE 0)
        /\ Count(FlagsBuilt, <<"-", "-", "d", "r", "y", "-", "r", "u", "n">>)
              = (IF call.arg.dry_run THEN 1 ELSE 0)
        /\ \A i, j \in 1..Len(FlagsBuilt) :
              (/\ FlagsBuilt[i] = <<"-", "-", "d", "e", "b", "u", "g", "-", "e", "x", "p", "o", "r", "t">>
               /\ FlagsBuilt[j] = <<"-", "-", "d", "r", "y", "-", "r", "u", "n">>) => i < j
        /\ Len(ArgsBuilt) = PathPlaces + (IF call.arg.debug_export THEN 1 ELSE 0)
                                       + (IF call.arg.dry_run THEN 1 ELSE 0)

C25_Witness ==
    /\ Built
    /\ call.arg.bundles_path = <<"b">>
    /\ call.arg.debug_export
    /\ call.arg.dry_run
    /\ Len(ArgsBuilt) = 6
    /\ ArgsBuilt[5] = S_debug_export
    /\ ArgsBuilt[6] = S_dry_run

\* ---- parse_progress, described from the pieces of the line
\* the whitespace tokens of a piece
PieceWords(e) ==
    CASE e = "marker" -> <<"===", "Processing", "bundle">>
      [] e = "tabbed" -> <<"3", "of", "07">>
      [] e = ""       -> <<>>
      [] OTHER        -> <<e>>
RECURSIVE WordsOf(_)
\* the whitespace tokens of a line
WordsOf(src) == IF src = <<>> THEN <<>> ELSE PieceWords(Head(src)) \o WordsOf(Tail(src))
WordText(w) ==
    CASE w = "===" -> <<"=", "=", "=">>
      [] w = "Processing" -> <<"P", "r", "o", "c", "e", "s", "s", "i", "n", "g">>
      [] w = "bundle" -> <<"b", "u", "n", "d", "l", "e">>
      [] OTHER -> PieceText(w)
\* the tokens that are unsigned 32-bit integers, and the integer each denotes
NumberOf == [w \in {"3", "07"} |-> IF w = "3" THEN <<"3">> ELSE <<"7">>]
\* the same with colons allowed behind the digits
ColonNumberOf ==
    [w \in {"3", "07", "10:"} |-> IF w = "10:" THEN <<"1", "0">> ELSE NumberOf[w]]
\* "bundle", N, "of", M at token j
MarkerAt(w, j) ==
    /\ j + 3 <= Len(w)
    /\ w[j] = "bundle"
    /\ w[j + 1] \in DOMAIN NumberOf
    /\ w[j + 2] = "of"
    /\ w[j + 3] \in DOMAIN ColonNumberOf
\* N, "of", M at token j
TripleAt(w, j) ==
    /\ j + 2 <= Len(w)
    /\ w[j] \in DOMAIN NumberOf
    /\ w[j + 1] = "of"
    /\ w[j + 2] \in DOMAIN NumberOf
Least(S) == CHOOSE x \in S : \A y \in S : x <= y
\* the line contains the marker
HasMarker(src) == \E i \in 1..Len(src) : src[i] = "marker"
\* the line contains " of "
HasSpacedOf(src) == \E i \in 2..(Len(src) - 1) : src[i] = "of"
\* the marker pattern applies to the line of the call
MarkerCase ==
    /\ Applied("parse_progress")
    /\ HasMarker(call.src)
    /\ \E j \in 1..Len(WordsOf(call.src)) : MarkerAt(WordsOf(call.src), j)
\* the generic pattern applies to it
TripleCase ==
    /\ Applied("parse_progress")
    /\ HasSpacedOf(call.src)
    /\ \E j \in 1..Len(WordsOf(call.src)) : TripleAt(WordsOf(call.src), j)
\* what the marker pattern is to return
ExpectedMarker(src) ==
    LET w == WordsOf(src)
        j == Least({k \in 1..Len(w) : MarkerAt(w, k)})
        rest == [i \in 1..(Len(w) - (j + 3)) |-> WordText(w[j + 3 + i])]
    IN  [current |-> NumberOf[w[j + 1]],
         total |-> ColonNumberOf[w[j + 3]],
         status |-> IF Len(rest) > 0
                    THEN <<"P", "r", "o", "c", "e", "s", "s", "i", "n", "g", " ",
                           "b", "u", "n", "d", "l", "e", " ">> \o JoinWith(rest, <<" ">>)
                    ELSE <<"P", "r", "o", "c", "e", "s", "s", "i", "n", "g", " ",
                           "b", "u", "n", "d", "l", "e">>]
RECURSIVE BeforeMarker(_)
\* the pieces in front of the first "==="
BeforeMarker(src) ==
    IF src = <<>> \/ Head(src) = "marker" THEN <<>>
    ELSE <<Head(src)>> \o BeforeMarker(Tail(src))
RECURSIVE Unpadded(_)
\* without the empty pieces at either end
Unpadded(src) ==
    IF src = <<>> THEN <<>>
    ELSE IF Head(src) = "" THEN Unpadded(Tail(src))
    ELSE IF src[Len(src)] = "" THEN Unpadded(SubSeq(src, 1, Len(src) - 1))
    ELSE src
\* what the generic pattern is to return
ExpectedGeneric(src) ==
    LET w == WordsOf(src)
        j == Least({k \in 1..Len(w) : TripleAt(w, k)})
    IN  [current |-> NumberOf[w[j]],
         total |-> NumberOf[w[j + 2]],
         status |-> LineOf(Unpadded(BeforeMarker(src)))]

\* C26: for a line that contains "=== Processing bundle" and whose tokens
\* hold "bundle", N, "of", M with N a number and M a number that may have
\* colons behind it, parse_progress returns N, M and the status "Processing
\* bundle", followed by a space and the tokens behind M joined by single
\* spaces when there are any.
C26_MarkerPattern ==
    MarkerCase => call.ret = <<<<ExpectedMarker(call.src)>>>>

C26_Witness ==
    /\ Applied("parse_progress")
    /\ call.src = <<"marker", "3", "of", "10:", "foo">>
    /\ call.ret = <<<<[current |-> <<"3">>, total |-> <<"1", "0">>,
                      status |-> S_processing_bundle \o <<" ", "f", "o", "o">>]>>>>

\* C27: for a line that contains " of " and that the marker pattern did not
\* match, parse_progress returns N and M of the first tokens N, "of", M that
\* are both numbers, wherever in the line they stand, with the status being
\* the line in front of its first "===", trimmed (the whole line, trimmed,
\* without one).
C27_GenericPattern ==
    (TripleCase /\ ~MarkerCase) => call.ret = <<<<ExpectedGeneric(call.src)>>>>

C27_Witness ==
    /\ Applied("parse_progress")
    /\ call.src = <<"foo", "of", "3", "of", "07">>
    /\ call.ret = <<<<[current |-> <<"3">>, total |-> <<"7">>,
                      status |-> LineOf(<<"foo", "of", "3", "of", "07">>)]>>>>

\* C28: where both patterns apply the result is the marker pattern's; a line
\* with the marker that the marker pattern does not match gets the generic
\* pattern's result; a line neither pattern applies to gets None.
C28_RuleOrder ==
    Applied("parse_progress") =>
        /\ (MarkerCase /\ TripleCase) =>
              /\ Len(call.ret[1]) = 1
              /\ call.ret[1][1].current = ExpectedMarker(call.src).current
              /\ call.ret[1][1].total = ExpectedMarker(call.src).total
              /\ IsPrefixAt(call.ret[1][1].status,
                            <<"P", "r", "o", "c", "e", "s", "s", "i", "n", "g", " ",
                              "b", "u", "n", "d", "l", "e">>, 1)
        /\ (HasMarker(call.src) /\ ~MarkerCase /\ TripleCase) =>
              call.ret[1] = <<ExpectedGeneric(call.src)>>
        /\ (~MarkerCase /\ ~TripleCase) => call.ret[1] = <<>>

C28_Witness ==
    /\ Applied("parse_progress")
    /\ call.src = <<"marker", "foo", "3", "of", "07">>
    /\ call.ret = <<<<[current |-> <<"3">>, total |-> <<"7">>, status |-> <<>>]>>>>

\* the positions of the build_progress events the reader of stream s delivered
\* for line n
ProgressOfLine(r, s, n) ==
    {i \in Positions(sink[r], "build_progress") : sink[r][i].by = s /\ sink[r][i].n = n}

\* C29: no build_progress event carries the total 0; a line whose match has
\* the total 0 gets no build_progress event, and once its turn of the loop is
\* over its build_log event has been delivered, unless the window refused it.
C29_NoZeroTotal ==
    \A r \in Runs :
        /\ \A i \in Positions(sink[r], "build_progress") : sink[r][i].total # <<"0">>
        /\ \A s \in Streams : \A n \in 1..Len(lines[r][s]) :
              lines[r][s][n] = <<"1", " ", "o", "f", " ", "0">> =>
                  /\ ProgressOfLine(r, s, n) = {}
                  /\ (~rejected[r] /\ n <= Handled(r, s)) =>
                        \E i \in LogsOfLine(r, s, n) :
                            sink[r][i].message = <<"1", " ", "o", "f", " ", "0">>

C29_Witness ==
    \E r \in Runs :
        /\ lines[r]["stdout"] = <<L_zero, L_progress>>
        /\ Handled(r, "stdout") = 2
        /\ ~rejected[r]
        /\ parse_progress(L_zero) = <<[current |-> <<"1">>, total |-> <<"0">>,
                                       status |-> L_zero]>>
        /\ ProgressOfLine(r, "stdout", 1) = {}
        /\ Cardinality(LogsOfLine(r, "stdout", 1)) = 1
        /\ Cardinality(ProgressOfLine(r, "stdout", 2)) = 1

\* the words that hold an error marker, and those that hold a warning marker
ErrorWords == {"error", "ERROR:", "xErRoRx", "Critical", "glyph"}
WarningWords == {"warn", "Warning"}
HasWord(src, words) == \E i \in 1..Len(src) : src[i] \in words

\* C30: get_log_level returns a level for every line, one of error, warning
\* and info: error for a line with ERROR, CRITICAL or the glyph in it, in any
\* letter case and anywhere in a word, whatever else the line holds; warning
\* for a line with WARN and none of those; info for every other line, one
\* with DEBUG included.
C30_LogLevel ==
    Applied("get_log_level") =>
        /\ call.ret[1] \in {"error", "warning", "info"}
        /\ call.ret[1] = (IF HasWord(call.src, ErrorWords) THEN "error"
                          ELSE IF HasWord(call.src, WarningWords) THEN "warning"
                          ELSE "info")

C30_Witness ==
    /\ Applied("get_log_level")
    /\ call.src = <<"Warning", "DEBUG", "xErRoRx">>
    /\ call.ret = <<"error">>

\* the completion report the worker of run r and the dry_run flag determine
ReportOf(r) ==
    OkResult(JoinWith(wrote[r]["stdout"], <<"\n">>),
             JoinWith(wrote[r]["stderr"], <<"\n">>),
             IF worker[r].status.code = <<>> THEN -1 ELSE worker[r].status.code[1])
\* ... and the build_complete event they determine
CompleteOf(r) ==
    LET code == IF worker[r].status.code = <<>> THEN -1 ELSE worker[r].status.code[1]
    IN  CompletionEvent(code = 0, code,
                        CompletionMessage(code = 0, config[r].dry_run, code))
\* no read of run r has failed
ReadsSucceeded(r) == \A s \in Streams : reader[r][s] # "failed"

Blocked(r, s) ==
    /\ worker[r].state = "running"
    /\ ReadEndOpen(r, s)
    /\ Len(wrote[r][s]) - rdpos[r][s] >= PipeCap

\* C32: whenever the worker cannot write to a full pipe and the reader task
\* of that pipe has been started, that task is at its read with a line to
\* take, whatever the other reader task and the wait loop are doing; and a
\* worker that cannot write to a full pipe always gets room in it again.
C32_PipesDrained ==
    \A r \in Solo : \A s \in Streams :
        /\ []((Blocked(r, s) /\ pc[r] # "publish") =>
                 (reader[r][s] = "reading" /\ rdpos[r][s] < Len(wrote[r][s])))
        /\ Blocked(r, s) ~> ~Blocked(r, s)

C32_Witness ==
    \E r \in Solo :
        /\ worker[r].state = "running"
        /\ pc[r] = "sleep"
        /\ Len(wrote[r]["stderr"]) = 2
        /\ rdpos[r]["stderr"] = 2
        /\ reader[r]["stdout"] = "reading"

\* C33: a line read from either stream that parse_progress matches with a
\* total above 0 has its build_progress event in the sink, with the values
\* parsed from it, stderr as stdout.
C33_SameOnBothChannels ==
    \A r \in Runs : \A s \in Streams : \A n \in 1..Len(lines[r][s]) :
        lines[r][s][n] = <<"1", " ", "o", "f", " ", "2">> =>
            /\ Cardinality(ProgressOfLine(r, s, n)) = 1
            /\ \A i \in ProgressOfLine(r, s, n) :
                  /\ sink[r][i].current = <<"1">>
                  /\ sink[r][i].total = <<"2">>

\* C34: the exit status a run has recorded, and reports in its build_complete
\* event and its CommandResult, is the exit status of the worker that run
\* spawned.
C34_OwnExitStatus ==
    \A r \in Runs :
        /\ Len(exit_status[r]) = 1 =>
              /\ worker[r].state \in {"exited", "killed"}
              /\ exit_status[r][1] = worker[r].status
        /\ ReturnedOk(r) =>
              /\ worker[r].state \in {"exited", "killed"}
              /\ result[r][1].status =
                    (IF worker[r].status.code = <<>> THEN -1 ELSE worker[r].status.code[1])
              /\ sink[r][Len(sink[r])].exit_code = result[r][1].status

\* C35: whenever the worker a run spawned is alive, its handle is in the
\* slot, or the run is about to store it, or a critical section on the slot
\* is in progress.
C35_LiveWorkerReachable ==
    \A r \in Runs :
        worker[r].state = "running" =>
            \/ Len(slot) = 1 /\ slot[1].w = r
            \/ pc[r] = "publish"
            \/ lock # <<>>

\* stop_python_task has taken the handle out of the slot
HandleTaken ==
    \E c \in Cancels :
        cresult[c] \in {<<"Task cancelled successfully">>, <<"Task already completed">>}

\* C36: a run whose handle stop_python_task took has recorded no exit status
\* and has no build_complete event, and if it has returned, it returned "Task
\* was cancelled"; so a run that recorded an exit status or emitted
\* build_complete never had its handle taken. While stop_python_task is at
\* its signal under the lock, the handle is in the slot and no status is
\* recorded.
C36_CancelOrComplete ==
    \A r \in Solo :
        /\ HandleTaken =>
              /\ Len(exit_status[r]) = 0
              /\ ~HasComplete(sink[r])
              /\ Returned(r) => result[r][1] = ErrResult("Task was cancelled")
        /\ (Len(exit_status[r]) = 1 \/ HasComplete(sink[r])) => ~HandleTaken
        /\ (\E c \in Cancels : cpc[c] = "kill_wait") =>
              (Len(slot) = 1 /\ Len(exit_status[r]) = 0)

C36_Witness ==
    \E r \in Solo :
        /\ HandleTaken
        /\ worker[r].state = "killed"
        /\ result[r] = <<ErrResult("Task was cancelled")>>

\* C37: stop_python_task that returns "Failed to cancel task" found a handle
\* and leaves the slot, the lock, the workers and the runs as they were; a
\* run ends with "Task was cancelled" only when stop_python_task took the
\* handle, so after a failed cancel the wait loop goes on with the same
\* worker.
C37_FailedCancelKeepsHandle ==
    /\ [][\A c \in Cancels :
            (Returns(c) /\ cresult'[c] = <<"Failed to cancel task">>) =>
                /\ Len(slot) = 1
                /\ slot' = slot
                /\ lock' = <<>>
                /\ worker' = worker
                /\ pc' = pc
                /\ result' = result]_vars
    /\ [](\A r \in Solo :
            (Returned(r) /\ result[r][1] = ErrResult("Task was cancelled")) => HandleTaken)

C37_Witness ==
    \E c \in Cancels, r \in Solo :
        /\ cresult[c] = <<"Failed to cancel task">>
        /\ ReturnedOk(r)
        /\ HasComplete(sink[r])
        /\ worker[r].state = "exited"

\* the build_log and build_progress events among those delivered
LineEventsIn(events) ==
    Positions(events, "build_log") \cup Positions(events, "build_progress")

\* C38: once a run has returned, whatever its outcome, no build_log or
\* build_progress event of that run is delivered any more.
C38_NoEventsAfterReturn ==
    [][\A r \in Runs :
          Returned(r) => LineEventsIn(sink'[r]) = LineEventsIn(sink[r])]_vars

\* stop_python_task has been called
CancelIssued == \E c \in Cancels : cpc[c] # "idle"
\* the wait loop of run r is under way
Waiting(r) == pc[r] \in {"wait", "sleep"}

\* C39 as stated: a run in its wait loop whose worker has exited returns its
\* CommandResult unless stop_python_task is called, and a run in its wait
\* loop whose handle stop_python_task took returns "Task was cancelled".
C39_Original ==
    \A r \in Solo :
        /\ (Waiting(r) /\ worker[r].state = "exited") ~> (ReturnedOk(r) \/ CancelIssued)
        /\ (Waiting(r) /\ HandleTaken) ~> (result[r] = <<ErrResult("Task was cancelled")>>)

\* C39: a run in its wait loop whose worker has exited returns; it returns
\* its CommandResult unless stop_python_task is called, child.try_wait()
\* fails or the build_complete emit fails, and then it returns that error;
\* a run in its wait loop whose handle stop_python_task took returns "Task
\* was cancelled".
C39_Termination ==
    \A r \in Solo :
        /\ (Waiting(r) /\ worker[r].state = "exited") ~> Returned(r)
        /\ (Waiting(r) /\ worker[r].state = "exited") ~>
              \/ ReturnedOk(r)
              \/ CancelIssued
              \/ ReturnedErr(r, {"Failed to check process status",
                                 "Failed to emit completion"})
        /\ (Waiting(r) /\ HandleTaken) ~> (result[r] = <<ErrResult("Task was cancelled")>>)

C39_Witness ==
    \E r \in Solo :
        /\ ReturnedOk(r)
        /\ ~CancelIssued
        /\ worker[r].state = "exited"
        /\ \A s \in Streams : reader[r][s] = "eof" /\ Len(lines[r][s]) = 1

\* the events the reader task of stream s has delivered
EventsBy(events, s) == {i \in 1..Len(events) : events[i].by = s}

\* C40: a reader task whose read failed holds the lines it read before, in
\* the order written, and reads and emits nothing more; a run that recorded
\* the exit status and whose emits were all accepted returns its
\* CommandResult, failed read or not, with stdout and stderr being the lines
\* its reader tasks hold.
C40_ReadErrorEndsReader ==
    /\ [](\A r \in Runs : \A s \in Streams :
            reader[r][s] = "failed" =>
                lines[r][s] = SubSeq(wrote[r][s], 1, Len(lines[r][s])))
    /\ [][\A r \in Runs : \A s \in Streams :
            reader[r][s] = "failed" =>
                /\ reader'[r][s] = "failed"
                /\ lines'[r][s] = lines[r][s]
                /\ rdpos'[r][s] = rdpos[r][s]
                /\ EventsBy(sink'[r], s) = EventsBy(sink[r], s)]_vars
    /\ [](\A r \in Runs :
            (pc[r] = "done" /\ Len(exit_status[r]) = 1 /\ ~rejected[r]) =>
                /\ ReturnedOk(r)
                /\ result[r][1].stdout = JoinWith(lines[r]["stdout"], <<"\n">>)
                /\ result[r][1].stderr = JoinWith(lines[r]["stderr"], <<"\n">>))

C40_Witness ==
    \E r \in Runs :
        /\ ReturnedOk(r)
        /\ reader[r]["stdout"] = "failed"
        /\ Len(wrote[r]["stdout"]) = 2
        /\ lines[r]["stdout"] = <<L_progress>>
        /\ result[r][1].stdout = L_progress
        /\ HasComplete(sink[r])

====
